---------------------------- MODULE Spec2Model ----------------------------
(***************************************************************************)
(* Model of the Vestaboard orchestration core: the character codec, the    *)
(* Row/Board grid model, the Device (remote send and recorded board), the  *)
(* three registered installables (clock, spotify, mlb) and the             *)
(* Orchestrator with its background loop and the request handlers that     *)
(* drive it concurrently.                                                  *)
(*                                                                         *)
(* Text is a sequence of one-character strings.  The two glyphs of the     *)
(* source that are not ASCII are written "BULLET" (code 62) and "BLOCK"    *)
(* (the placeholder shown for a colour code).                              *)
(***************************************************************************)
EXTENDS Naturals, Integers, Sequences, FiniteSets, TLC

VARIABLES
    rows,               \* Device.rows
    columns,            \* Device.columns
    active_board,       \* Device.active_board: a Board or NoBoard
    api_key_set,        \* whether VESTABOARD_API_KEY is set in the environment
    display,            \* the grid the remote display shows (last accepted POST)
    active_installable, \* Orchestrator.active_installable: a name or None
    last_update_time,   \* Orchestrator.last_update_time
    running,            \* Orchestrator._running
    lock,               \* holder of Orchestrator._lock, or None
    next_refresh_increment, \* per installable: BaseInstallable.next_refresh_increment
    schedule,           \* MLBScoresInstallable._schedule
    current_game_index, \* MLBScoresInstallable._current_game_index
    spotify_client,     \* SpotifyInstallable._spotify_client is set
    variants,           \* which should_update gates the registry holds
    requests,           \* number of control requests handled so far
    rounds,             \* number of rounds the background loop has begun
    pc,                 \* per thread: position in its code
    loc                 \* per thread: local variables of the running call

vars == <<rows, columns, active_board, api_key_set, display,
          active_installable, last_update_time, running, lock,
          next_refresh_increment, schedule, current_game_index,
          spotify_client, variants, requests, rounds, pc, loc>>

\* Python's None where a name or a result is expected, and where a Board is
None == "None"
NoBoard == [none |-> TRUE]
\* Python's True and False as results of a call
True == "True"
False == "False"

-----------------------------------------------------------------------------
(* Bounds of the model and constants of the program *)

\* control requests (activate, deactivate, send-grid) followed in one behaviour
MaxRequests == 2

\* rounds of the background loop followed in one behaviour, and one more for
\* every further loop thread that is started
MaxRounds == 2

\* rows and columns of the wire format (Device.update_message)
VESTABOARD_ROWS == 6
VESTABOARD_COLS == 22

\* retry delays in milliseconds
SOFT_RETRY_MS == 15000
NO_GAMES_RETRY_MS == 60000

-----------------------------------------------------------------------------
(* Sequence helpers *)

Min(a, b) == IF a < b THEN a ELSE b

\* Python's seq[:n]
Take(s, n) == SubSeq(s, 1, Min(n, Len(s)))

\* Python's [x] * n
Repeat(x, n) == [i \in 1..n |-> x]

\* codes padded with blanks up to n, or cut down to n
fit(codes, n) ==
    IF Len(codes) < n THEN codes \o Repeat(0, n - Len(codes)) ELSE Take(codes, n)

\* Python's list.insert(i, x) with a 0-based index i, 0 <= i
ListInsert(s, i, x) ==
    IF i >= Len(s) THEN Append(s, x)
    ELSE SubSeq(s, 1, i) \o <<x>> \o SubSeq(s, i + 1, Len(s))

\* Python's s[-k] = x for 1 <= k <= Len(s)
SetFromEnd(s, k, x) == [s EXCEPT ![Len(s) - k + 1] = x]

RECURSIVE Concat(_)
Concat(ss) == IF ss = <<>> THEN <<>> ELSE Head(ss) \o Concat(Tail(ss))

-----------------------------------------------------------------------------
(* Character codec: vestaboard/models.py Characters, vestaboard/utils.py *)

DigitValue == [d \in {"0", "1", "2", "3", "4", "5", "6", "7", "8", "9"} |->
    CASE d = "0" -> 0 [] d = "1" -> 1 [] d = "2" -> 2 [] d = "3" -> 3
      [] d = "4" -> 4 [] d = "5" -> 5 [] d = "6" -> 6 [] d = "7" -> 7
      [] d = "8" -> 8 [] d = "9" -> 9]

\* Python's int() on a decimal string, given as its sequence of digits
RECURSIVE int(_)
int(ds) ==
    IF ds = <<>> THEN 0
    ELSE 10 * int(SubSeq(ds, 1, Len(ds) - 1)) + DigitValue[ds[Len(ds)]]

\* Python's str() on a natural number, as its sequence of digits
DigitChar == <<"0", "1", "2", "3", "4", "5", "6", "7", "8", "9">>
RECURSIVE str(_)
str(n) == IF n < 10 THEN <<DigitChar[n + 1]>>
          ELSE str(n \div 10) \o <<DigitChar[(n % 10) + 1]>>

\* Characters.code: token -> decimal string
CharactersCode ==
    (" " :> <<"0">>) @@
    ("A" :> <<"1">>) @@ ("B" :> <<"2">>) @@ ("C" :> <<"3">>) @@
    ("D" :> <<"4">>) @@ ("E" :> <<"5">>) @@ ("F" :> <<"6">>) @@
    ("G" :> <<"7">>) @@ ("H" :> <<"8">>) @@ ("I" :> <<"9">>) @@
    ("J" :> <<"1", "0">>) @@ ("K" :> <<"1", "1">>) @@ ("L" :> <<"1", "2">>) @@
    ("M" :> <<"1", "3">>) @@ ("N" :> <<"1", "4">>) @@ ("O" :> <<"1", "5">>) @@
    ("P" :> <<"1", "6">>) @@ ("Q" :> <<"1", "7">>) @@ ("R" :> <<"1", "8">>) @@
    ("S" :> <<"1", "9">>) @@ ("T" :> <<"2", "0">>) @@ ("U" :> <<"2", "1">>) @@
    ("V" :> <<"2", "2">>) @@ ("W" :> <<"2", "3">>) @@ ("X" :> <<"2", "4">>) @@
    ("Y" :> <<"2", "5">>) @@ ("Z" :> <<"2", "6">>) @@
    ("1" :> <<"2", "7">>) @@ ("2" :> <<"2", "8">>) @@ ("3" :> <<"2", "9">>) @@
    ("4" :> <<"3", "0">>) @@ ("5" :> <<"3", "1">>) @@ ("6" :> <<"3", "2">>) @@
    ("7" :> <<"3", "3">>) @@ ("8" :> <<"3", "4">>) @@ ("9" :> <<"3", "5">>) @@
    ("0" :> <<"3", "6">>) @@
    ("!" :> <<"3", "7">>) @@ ("@" :> <<"3", "8">>) @@ ("#" :> <<"3", "9">>) @@
    ("$" :> <<"4", "0">>) @@ ("(" :> <<"4", "1">>) @@ (")" :> <<"4", "2">>) @@
    ("-" :> <<"4", "4">>) @@ ("+" :> <<"4", "6">>) @@ ("&" :> <<"4", "7">>) @@
    ("=" :> <<"4", "8">>) @@ (";" :> <<"4", "9">>) @@ (":" :> <<"5", "0">>) @@
    ("'" :> <<"5", "2">>) @@ ("\"" :> <<"5", "3">>) @@ ("%" :> <<"5", "4">>) @@
    ("," :> <<"5", "5">>) @@ ("." :> <<"5", "6">>) @@ ("/" :> <<"5", "9">>) @@
    ("?" :> <<"6", "0">>) @@ ("BULLET" :> <<"6", "2">>) @@
    ("RED" :> <<"6", "3">>) @@ ("ORANGE" :> <<"6", "4">>) @@
    ("YELLOW" :> <<"6", "5">>) @@ ("GREEN" :> <<"6", "6">>) @@
    ("BLUE" :> <<"6", "7">>) @@ ("PURPLE" :> <<"6", "8">>) @@
    ("WHITE" :> <<"6", "9">>) @@ ("BLACK" :> <<"7", "0">>) @@
    ("FILLED" :> <<"7", "1">>)

\* str.upper() on a token: lower-case letters and lower-case colour names
UpperOf ==
    ("a" :> "A") @@ ("b" :> "B") @@ ("c" :> "C") @@ ("d" :> "D") @@
    ("e" :> "E") @@ ("f" :> "F") @@ ("g" :> "G") @@ ("h" :> "H") @@
    ("i" :> "I") @@ ("j" :> "J") @@ ("k" :> "K") @@ ("l" :> "L") @@
    ("m" :> "M") @@ ("n" :> "N") @@ ("o" :> "O") @@ ("p" :> "P") @@
    ("q" :> "Q") @@ ("r" :> "R") @@ ("s" :> "S") @@ ("t" :> "T") @@
    ("u" :> "U") @@ ("v" :> "V") @@ ("w" :> "W") @@ ("x" :> "X") @@
    ("y" :> "Y") @@ ("z" :> "Z") @@
    ("red" :> "RED") @@ ("orange" :> "ORANGE") @@ ("yellow" :> "YELLOW") @@
    ("green" :> "GREEN") @@ ("blue" :> "BLUE") @@ ("purple" :> "PURPLE") @@
    ("white" :> "WHITE") @@ ("black" :> "BLACK") @@ ("filled" :> "FILLED")

upper(v) == IF v \in DOMAIN UpperOf THEN UpperOf[v] ELSE v

\* tokens for which `not v or v.strip() == ''` holds
BlankTokens == {"", " ", "  "}

\* one code per token: the table code of the upper-cased token, 0 on a miss
to_code(v) ==
    IF v \in BlankTokens THEN 0
    ELSE IF upper(v) \in DOMAIN CharactersCode THEN int(CharactersCode[upper(v)])
    ELSE 0

\* a variant that leaves out the tokens the table does not know
convert_to_character_code_skips(input) ==
    LET known(v) == v \in BlankTokens \/ upper(v) \in DOMAIN CharactersCode
        kept == SelectSeq(input, known)
    IN  [i \in 1..Len(kept) |-> to_code(kept[i])]

convert_to_character_code(input) == [i \in 1..Len(input) |-> to_code(input[i])]

\* the table's names of colours, which decode to the block placeholder
ColorNames ==
    {"RED", "ORANGE", "YELLOW", "GREEN", "BLUE", "PURPLE", "WHITE", "BLACK", "FILLED"}

\* code_to_char = {int(v): k}: the token of a code, a blank for a code the
\* table does not hold
from_code(code) ==
    IF \E k \in DOMAIN CharactersCode : int(CharactersCode[k]) = code
    THEN LET char == CHOOSE k \in DOMAIN CharactersCode : int(CharactersCode[k]) = code
         IN  IF char \in ColorNames THEN "BLOCK" ELSE char
    ELSE " "

\* get_color_from_code: color_codes.get(code)
color_codes ==
    (63 :> "red") @@ (64 :> "orange") @@ (65 :> "yellow") @@ (66 :> "green") @@
    (67 :> "blue") @@ (68 :> "purple") @@ (69 :> "white") @@ (70 :> "black") @@
    (71 :> "filled")

get_color_from_code(code) ==
    IF code \in DOMAIN color_codes THEN color_codes[code] ELSE None

\* one pair per code, as convert_from_character_code_with_colors builds it
char_and_color(code) ==
    LET color == get_color_from_code(code)
    IN  IF \E k \in DOMAIN CharactersCode : int(CharactersCode[k]) = code
        THEN LET char == CHOOSE k \in DOMAIN CharactersCode : int(CharactersCode[k]) = code
             IN  IF char \in ColorNames THEN [char |-> "BLOCK", color |-> color]
                 ELSE [char |-> char, color |-> None]
        ELSE [char |-> " ", color |-> None]

\* a variant that reports the colour looked up for every code, glyph or not,
\* and leaves the placeholder without one
convert_from_character_code_with_colors_swapped(codes) ==
    [i \in 1..Len(codes) |->
        LET pair == char_and_color(codes[i])
        IN  [pair EXCEPT !.color = IF pair.char = "BLOCK" THEN None
                                   ELSE get_color_from_code(codes[i])]]

convert_from_character_code_with_colors(codes) ==
    [i \in 1..Len(codes) |-> char_and_color(codes[i])]

\* a variant whose reverse table keeps the codes as the strings the table holds,
\* so that no integer code is found in it
convert_from_character_code_string_keys(codes) == [i \in 1..Len(codes) |-> " "]

convert_from_character_code(codes) == [i \in 1..Len(codes) |-> from_code(codes[i])]

-----------------------------------------------------------------------------
(* Grid model: vestaboard/models.py Row, Board *)

Row(index, length, align, line) ==
    [index |-> index, length |-> length, align |-> align, line |-> line]

Board(r, c, message) ==
    [rows |-> r, columns |-> c, message |-> message, duration |-> None]

\* Row.pad_line loops for ever on a short line whose align is "none"
pad_line_returns(row) ==
    Len(row.line) >= row.length \/ row.align \in {"left", "center", "right"}

\* Row.pad_line raises ValueError when a line that needs padding meets an align
\* that is none of the four tokens
pad_line_raises(row) ==
    Len(row.line) < row.length /\ row.align \notin {"left", "center", "right", "none"}

\* a variant whose center padding prepends on an odd length and appends on an
\* even one
RECURSIVE pad_line_center_swapped(_)
pad_line_center_swapped(row) ==
    IF Len(row.line) >= row.length \/ row.align \notin {"left", "center", "right"}
    THEN row
    ELSE IF row.align = "right"
         THEN pad_line_center_swapped([row EXCEPT !.line = <<0>> \o @])
    ELSE IF row.align = "center"
         THEN IF Len(row.line) % 2 = 1
              THEN pad_line_center_swapped([row EXCEPT !.line = <<0>> \o @])
              ELSE pad_line_center_swapped([row EXCEPT !.line = Append(@, 0)])
    ELSE pad_line_center_swapped([row EXCEPT !.line = Append(@, 0)])

RECURSIVE pad_line(_)
pad_line(row) ==
    IF Len(row.line) >= row.length \/ row.align \notin {"left", "center", "right"}
    THEN row
    ELSE IF row.align = "right"
         THEN pad_line([row EXCEPT !.line = <<0>> \o @])
    ELSE IF row.align = "center"
         THEN IF Len(row.line) % 2 = 1
              THEN pad_line([row EXCEPT !.line = Append(@, 0)])
              ELSE pad_line([row EXCEPT !.line = <<0>> \o @])
    ELSE pad_line([row EXCEPT !.line = Append(@, 0)])

\* Board.pad_message: blank Rows are added, after the rows on an odd count and
\* before them on an even one, while the count is not above board.rows
RECURSIVE pad_message(_)
pad_message(board) ==
    IF ~(Len(board.message) <= board.rows) THEN board
    ELSE IF Len(board.message) % 2 = 1
         THEN pad_message([board EXCEPT !.message =
                  Append(@, Row(Len(board.message), board.columns, "left",
                                Repeat(0, board.columns)))])
         ELSE pad_message([board EXCEPT !.message =
                  <<Row(0, board.columns, "left", Repeat(0, board.columns))>> \o @])

-----------------------------------------------------------------------------
(* Device: vestaboard/models.py Device *)

\* Device.create_board: the rows' length is stamped, the row list is kept
create_board(message) ==
    Board(rows, columns, [i \in 1..Len(message) |-> [message[i] EXCEPT !.length = columns]])

\* a variant that hands the Row back without padding it
create_row_unpadded(index, line, align) == Row(index, columns, align, line)

\* Device.create_row: a Row of the Device's width, padded at once
create_row(index, line, align) == pad_line(Row(index, columns, align, line))

\* Device.update_message, before the try: the board and its rows are stamped
\* with the Device's dimensions; the row list and the codes are left alone
stamp_dimensions(new_board) ==
    [new_board EXCEPT !.rows = rows, !.columns = columns,
                      !.message = [i \in 1..Len(@) |-> [@[i] EXCEPT !.length = columns]]]

\* one row of the body: truncated to the wire width, padded with blanks
row_data(line) ==
    LET cut == Take(line, VESTABOARD_COLS)
    IN  IF Len(cut) < VESTABOARD_COLS
        THEN cut \o Repeat(0, VESTABOARD_COLS - Len(cut))
        ELSE cut

\* the JSON body of the POST: the first rows, then blank rows up to the wire height
message_data(new_board) ==
    LET rows_to_send == Take(new_board.message, VESTABOARD_ROWS)
        sent == [i \in 1..Len(rows_to_send) |-> row_data(rows_to_send[i].line)]
    IN  IF Len(sent) < VESTABOARD_ROWS
        THEN sent \o Repeat(Repeat(0, VESTABOARD_COLS), VESTABOARD_ROWS - Len(sent))
        ELSE sent

\* Device.get_board, the conversion of a fetched layout: one Row per layout
\* row, each padded or truncated to the Device's width; the row list as fetched
board_from_layout(layout) ==
    Board(rows, columns,
          [i \in 1..Len(layout) |->
              Row(i - 1, columns, "left",
                  IF Len(layout[i]) < columns
                  THEN layout[i] \o Repeat(0, columns - Len(layout[i]))
                  ELSE Take(layout[i], columns))])

\* Device.get_board on `currentMessage: null`: an all-blank board
blank_board ==
    Board(rows, columns, [i \in 1..rows |-> Row(i - 1, columns, "left", Repeat(0, columns))])

-----------------------------------------------------------------------------
(* Clock installable: installables/clock.py *)

\* DIGITS: the 5 x 4 glyph of each digit
DIGITS ==
    ("0" :> << <<70, 70, 70, 70>>, <<70, 0, 0, 70>>, <<70, 0, 0, 70>>,
               <<70, 0, 0, 70>>, <<70, 70, 70, 70>> >>) @@
    ("1" :> << <<0, 0, 70, 70>>, <<0, 0, 0, 70>>, <<0, 0, 0, 70>>,
               <<0, 0, 0, 70>>, <<0, 0, 0, 70>> >>) @@
    ("2" :> << <<70, 70, 70, 70>>, <<0, 0, 0, 70>>, <<70, 70, 70, 70>>,
               <<70, 0, 0, 0>>, <<70, 70, 70, 70>> >>) @@
    ("3" :> << <<70, 70, 70, 70>>, <<0, 0, 0, 70>>, <<70, 70, 70, 70>>,
               <<0, 0, 0, 70>>, <<70, 70, 70, 70>> >>) @@
    ("4" :> << <<70, 0, 0, 70>>, <<70, 0, 0, 70>>, <<70, 70, 70, 70>>,
               <<0, 0, 0, 70>>, <<0, 0, 0, 70>> >>) @@
    ("5" :> << <<70, 70, 70, 70>>, <<70, 0, 0, 0>>, <<70, 70, 70, 70>>,
               <<0, 0, 0, 70>>, <<70, 70, 70, 70>> >>) @@
    ("6" :> << <<70, 70, 70, 70>>, <<70, 0, 0, 0>>, <<70, 70, 70, 70>>,
               <<70, 0, 0, 70>>, <<70, 70, 70, 70>> >>) @@
    ("7" :> << <<70, 70, 70, 70>>, <<0, 0, 0, 70>>, <<0, 0, 0, 70>>,
               <<0, 0, 0, 70>>, <<0, 0, 0, 70>> >>) @@
    ("8" :> << <<70, 70, 70, 70>>, <<70, 0, 0, 70>>, <<70, 70, 70, 70>>,
               <<70, 0, 0, 70>>, <<70, 70, 70, 70>> >>) @@
    ("9" :> << <<70, 70, 70, 70>>, <<70, 0, 0, 70>>, <<70, 70, 70, 70>>,
               <<0, 0, 0, 70>>, <<70, 70, 70, 70>> >>)

\* ClockInstallable.write_digit: the glyph of time_value written with its top
\* left corner at (start_row, start_col), 0-based, where the board has cells
write_digit(start_row, start_col, time_value, board) ==
    LET glyph == DIGITS[time_value]
        cell(i, j, old) ==
            LET r == (i - 1) - start_row
                c == (j - 1) - start_col
            IN  IF /\ r \in 0..4 /\ c \in 0..3
                   /\ (j - 1) < board.message[i].length
                THEN glyph[r + 1][c + 1] ELSE old
    IN  [board EXCEPT !.message =
            [i \in 1..Len(@) |->
                [@[i] EXCEPT !.line = [j \in 1..Len(@) |-> cell(i, j, @[j])]]]]

\* the colon dots of rows 2 and 4, column 10
write_colons(board) ==
    LET dot(b, r) ==
            IF Len(b.message) > r /\ Len(b.message[r + 1].line) > 10
            THEN [b EXCEPT !.message[r + 1].line[11] = 70] ELSE b
    IN  dot(dot(board, 2), 4)

\* wall-clock readings (strftime %I, %M, %S) the clock is given
ClockTimes ==
    { [hr |-> <<"0", "3">>, min |-> <<"0", "7">>, sec |-> <<"4", "2">>],
      [hr |-> <<"1", "2">>, min |-> <<"0", "0">>, sec |-> <<"0", "0">>] }

\* a variant that takes the seconds read for milliseconds
clock_generate_board_units(tm) ==
    LET b0 == [create_board(<<>>) EXCEPT !.message =
                  [i \in 1..6 |-> create_row(i - 1, Repeat(0, columns), "none")]]
    IN  [board |-> b0, refresh |-> 60000 - int(tm.sec)]

\* ClockInstallable.generate_board at wall-clock time tm: (board, refresh)
clock_generate_board(tm) ==
    LET b0 == [create_board(<<>>) EXCEPT !.message =
                  [i \in 1..6 |-> create_row(i - 1, Repeat(0, columns), "none")]]
        b1 == IF tm.hr[1] = "1" THEN write_digit(1, 0, tm.hr[1], b0) ELSE b0
        b2 == write_digit(1, 5, tm.hr[2], b1)
        b3 == write_colons(b2)
        b4 == write_digit(1, 12, tm.min[1], b3)
        b5 == write_digit(1, 17, tm.min[2], b4)
    IN  [board |-> b5, refresh |-> 60000 - (int(tm.sec) * 1000)]

-----------------------------------------------------------------------------
(* Spotify installable: installables/spotify.py *)

\* ", ".join(names)
RECURSIVE join_comma(_)
join_comma(names) ==
    IF names = <<>> THEN <<>>
    ELSE IF Len(names) = 1 THEN names[1]
    ELSE names[1] \o <<",", " ">> \o join_comma(Tail(names))

header_line_text ==
    <<"GREEN", " ", " ", " ", " ", "N", "O", "w", " ", "P", "L", "A", "Y", "I",
      "N", "G", " ", " ", " ", " ", " ", "GREEN">>

\* the three rows every Spotify board starts with
spotify_design ==
    << create_row(0, <<66, 66>> \o Repeat(0, 18) \o <<66, 66>>, "none"),
       create_row(1, convert_to_character_code(header_line_text), "none"),
       create_row(2, Repeat(0, 22), "none") >>

\* the tracks the music service reports as playing (ASCII, so unidecode keeps them)
Tracks ==
    { [song |-> <<"H", "e", "y">>, artists |-> << <<"A", "B">>, <<"C">> >>,
       duration_ms |-> 3000, progress_ms |-> 1000],
      [song |-> <<"T", "h", "e", " ", "l", "o", "n", "g", " ", "a", "n", "d", " ",
                  "w", "i", "n", "d", "i", "n", "g", " ", "r", "d">>,
       artists |-> << <<"X">> >>, duration_ms |-> 5000, progress_ms |-> 0] }

\* what sp.current_user_playing_track() can do
SpotifyAnswers ==
    {[kind |-> k] : k \in {"none", "paused", "spotify_exception", "raises"}}
    \cup {[kind |-> "playing", track |-> tr] : tr \in Tracks}

\* SpotifyInstallable.generate_board for a given client and answer of the service:
\* raised, or (board, refresh); sets_refresh when it records the delay itself;
\* fault when the service was unavailable or reported nothing
spotify_generate_board(have_client, answer) ==
    LET board == [create_board(<<>>) EXCEPT !.message = spotify_design]
        soft(sets, fault) ==
            [raised |-> FALSE, board |-> board, refresh |-> SOFT_RETRY_MS,
             sets_refresh |-> sets, fault |-> fault]
    IN  IF ~have_client THEN soft(FALSE, TRUE)
        ELSE IF answer.kind = "none" THEN soft(TRUE, TRUE)
        ELSE IF answer.kind = "paused" THEN soft(TRUE, FALSE)
        ELSE IF answer.kind = "spotify_exception" THEN soft(TRUE, TRUE)
        ELSE IF answer.kind = "raises"
             THEN [raised |-> TRUE, board |-> NoBoard, refresh |-> 0,
                   sets_refresh |-> FALSE, fault |-> TRUE]
        ELSE LET tr == answer.track
                 line4 == create_row(3, convert_to_character_code(tr.song), "center")
                 line5 == create_row(4, convert_to_character_code(join_comma(tr.artists)), "center")
                 line6 == create_row(5, Repeat(0, columns), "none")
             IN  [raised |-> FALSE,
                  board |-> [board EXCEPT !.message = @ \o <<line4, line5, line6>>],
                  refresh |-> (tr.duration_ms - tr.progress_ms) + 1000,
                  sets_refresh |-> FALSE, fault |-> FALSE]

-----------------------------------------------------------------------------
(* MLB scores installable: installables/sports/mlb/app.py *)

\* TEAMS: statcastId -> abbreviation and colour
TEAMS ==
    (108 :> [abbreviation |-> <<"L", "A", "A">>, color |-> "red"]) @@
    (109 :> [abbreviation |-> <<"A", "Z">>, color |-> "red"]) @@
    (110 :> [abbreviation |-> <<"B", "A", "L">>, color |-> "orange"]) @@
    (111 :> [abbreviation |-> <<"B", "O", "S">>, color |-> "red"]) @@
    (112 :> [abbreviation |-> <<"C", "H", "C">>, color |-> "blue"]) @@
    (113 :> [abbreviation |-> <<"C", "I", "N">>, color |-> "red"]) @@
    (114 :> [abbreviation |-> <<"C", "L", "E">>, color |-> "blue"]) @@
    (115 :> [abbreviation |-> <<"C", "O", "L">>, color |-> "purple"]) @@
    (116 :> [abbreviation |-> <<"D", "E", "T">>, color |-> "orange"]) @@
    (117 :> [abbreviation |-> <<"H", "O", "U">>, color |-> "orange"]) @@
    (118 :> [abbreviation |-> <<"K", "C">>, color |-> "blue"]) @@
    (119 :> [abbreviation |-> <<"L", "A", "D">>, color |-> "blue"]) @@
    (120 :> [abbreviation |-> <<"W", "S", "H">>, color |-> "red"]) @@
    (121 :> [abbreviation |-> <<"N", "Y", "M">>, color |-> "blue"]) @@
    (133 :> [abbreviation |-> <<"O", "A", "K">>, color |-> "green"]) @@
    (134 :> [abbreviation |-> <<"P", "I", "T">>, color |-> "yellow"]) @@
    (135 :> [abbreviation |-> <<"S", "D">>, color |-> "yellow"]) @@
    (136 :> [abbreviation |-> <<"S", "E", "A">>, color |-> "green"]) @@
    (137 :> [abbreviation |-> <<"S", "F">>, color |-> "orange"]) @@
    (138 :> [abbreviation |-> <<"S", "T", "L">>, color |-> "red"]) @@
    (139 :> [abbreviation |-> <<"T", "B">>, color |-> "green"]) @@
    (140 :> [abbreviation |-> <<"T", "E", "X">>, color |-> "blue"]) @@
    (141 :> [abbreviation |-> <<"T", "O", "R">>, color |-> "blue"]) @@
    (142 :> [abbreviation |-> <<"M", "I", "N">>, color |-> "blue"]) @@
    (143 :> [abbreviation |-> <<"P", "H", "I">>, color |-> "red"]) @@
    (144 :> [abbreviation |-> <<"A", "T", "L">>, color |-> "red"]) @@
    (145 :> [abbreviation |-> <<"C", "W", "S">>, color |-> "black"]) @@
    (146 :> [abbreviation |-> <<"M", "I", "A">>, color |-> "orange"]) @@
    (147 :> [abbreviation |-> <<"N", "Y", "Y">>, color |-> "blue"]) @@
    (158 :> [abbreviation |-> <<"M", "I", "L">>, color |-> "yellow"])

TEAM_PRIORITY == <<111, 113, 147, 109, 110>>

COLOR_MAP ==
    ("red" :> 63) @@ ("orange" :> 64) @@ ("yellow" :> 65) @@ ("green" :> 66) @@
    ("blue" :> 67) @@ ("purple" :> 68) @@ ("white" :> 69) @@ ("black" :> 70) @@
    ("filled" :> 71)

InPriority(team) == \E i \in 1..Len(TEAM_PRIORITY) : TEAM_PRIORITY[i] = team

\* TEAM_PRIORITY.index(team), 0-based
PriorityIndex(team) == (CHOOSE i \in 1..Len(TEAM_PRIORITY) : TEAM_PRIORITY[i] = team) - 1

\* Python's filter by a predicate, order kept
RECURSIVE SelectGames(_, _)
SelectGames(games, wanted) ==
    IF games = <<>> THEN <<>>
    ELSE IF Head(games) \in wanted
         THEN <<Head(games)>> \o SelectGames(Tail(games), wanted)
         ELSE SelectGames(Tail(games), wanted)

\* Python's sorted(games, key=...): stable, ascending; key[i] is the key of games[i]
StableSort(games, key) ==
    LET before(i, j) == key[i] < key[j] \/ (key[i] = key[j] /\ i < j)
        place(i) == 1 + Cardinality({j \in 1..Len(games) : before(j, i)})
    IN  [p \in 1..Len(games) |-> games[CHOOSE i \in 1..Len(games) : place(i) = p]]

\* MLBScoresInstallable.game_prioritizer; datetime is the ISO start time, given
\* as a number that orders as the strings do
game_prioritizer(games) ==
    LET touches(g) == InPriority(g.homeTeamId) \/ InPriority(g.awayTeamId)
        all == {games[i] : i \in 1..Len(games)}
        priority_games == SelectGames(games, {g \in all : touches(g)})
        non_priority_games == SelectGames(games, {g \in all : ~touches(g)})
        rank(g) == IF InPriority(g.homeTeamId) THEN PriorityIndex(g.homeTeamId)
                   ELSE PriorityIndex(g.awayTeamId)
    IN  StableSort(priority_games, [i \in 1..Len(priority_games) |-> rank(priority_games[i])])
        \o StableSort(non_priority_games,
                      [i \in 1..Len(non_priority_games) |-> non_priority_games[i].datetime])

\* Python's s.split(",")[0]
RECURSIVE before_comma(_)
before_comma(s) ==
    IF s = <<>> \/ Head(s) = "," THEN <<>> ELSE <<Head(s)>> \o before_comma(Tail(s))

\* Python's s.split(): the words between runs of blanks
RECURSIVE split_words(_, _)
split_words(s, word) ==
    IF s = <<>> THEN (IF word = <<>> THEN <<>> ELSE <<word>>)
    ELSE IF Head(s) = " "
         THEN (IF word = <<>> THEN <<>> ELSE <<word>>) \o split_words(Tail(s), <<>>)
         ELSE split_words(Tail(s), Append(word, Head(s)))

\* the two description lines of get_live_game_feed: a word goes to line 5
\* while it fits, otherwise to line 6
RECURSIVE wrap_words(_, _, _)
wrap_words(words, line_5, line_6) ==
    IF words = <<>> THEN <<line_5, line_6>>
    ELSE IF Len(line_5) + Len(Head(words)) + 1 <= 22
         THEN wrap_words(Tail(words), line_5 \o Head(words) \o <<" ">>, line_6)
         ELSE wrap_words(Tail(words), line_5, line_6 \o Head(words) \o <<" ">>)

description_lines(last_play_description) ==
    LET short_description == before_comma(last_play_description)
    IN  IF Len(short_description) <= 22 THEN <<short_description, <<>> >>
        ELSE wrap_words(split_words(short_description, <<>>), <<>>, <<>>)

\* ord(c) for the upper-case letters
Alphabet ==
    <<"A", "B", "C", "D", "E", "F", "G", "H", "I", "J", "K", "L", "M",
      "N", "O", "P", "Q", "R", "S", "T", "U", "V", "W", "X", "Y", "Z">>
ord(c) == 64 + (CHOOSE i \in 1..26 : Alphabet[i] = c)

\* Python's str.find(c): 0-based index of the first c, -1 when absent
RECURSIVE find(_, _, _)
find(s, c, from) ==
    IF from > Len(s) THEN -1
    ELSE IF s[from] = c THEN from - 1 ELSE find(s, c, from + 1)

\* the board get_live_game_feed renders from a parsed feed
live_game_board(feed) ==
    LET home_team == TEAMS[feed.home_team_id]
        away_team == TEAMS[feed.away_team_id]
        line_1_string == <<" ">> \o away_team.abbreviation \o <<" ">> \o str(feed.away_score)
                         \o <<" ", "@", " ">> \o home_team.abbreviation \o <<" ">>
                         \o str(feed.home_score)
        chars_a == ListInsert(convert_to_character_code(line_1_string), 1,
                              COLOR_MAP[away_team.color])
        at_index == find(line_1_string, "@", 1)
        chars_b == IF at_index # -1
                   THEN ListInsert(chars_a, at_index + 2, COLOR_MAP[home_team.color])
                   ELSE chars_a
        padded_1 == pad_line(create_row(0, chars_b, "left"))
        inning_digits == str(feed.inning)
        line_1 ==
            IF feed.final
            THEN [padded_1 EXCEPT !.line = SetFromEnd(@, 3, 37)]
            ELSE LET half == SetFromEnd(padded_1.line, 3,
                                        ord(upper(feed.inning_half[1])) - ord("A") + 1)
                 IN  IF Len(inning_digits) = 1
                     THEN [padded_1 EXCEPT !.line =
                              SetFromEnd(half, 2, int(inning_digits) + 26)]
                     ELSE [padded_1 EXCEPT !.line =
                              SetFromEnd(SetFromEnd(half, 2, int(<<inning_digits[1]>>) + 26),
                                         1, int(<<inning_digits[2]>>) + 26)]
        line_2 == pad_line(create_row(1,
                     convert_to_character_code(<<"P", ":", " ">> \o feed.pitcher), "left"))
        line_3 == pad_line(create_row(2,
                     convert_to_character_code(<<"B", ":", " ">> \o feed.batter), "left"))
        line_4 == pad_line(create_row(3,
                     convert_to_character_code(
                         <<"L", "a", "s", "t", ".", ".", ".">> \o Repeat(" ", 10)
                         \o str(feed.outs) \o <<" ", "o", "u", "t">>), "left"))
        desc == description_lines(feed.description)
        line_5 == pad_line(create_row(4, convert_to_character_code(desc[1]), "left"))
        line_6 == pad_line(create_row(5, convert_to_character_code(desc[2]), "left"))
    IN  [create_board(<<>>) EXCEPT !.message = <<line_1, line_2, line_3, line_4, line_5, line_6>>]

\* the games statsapi lists for the day: one with a preferred team, one without
Game(id, home, away, datetime) ==
    [gameId |-> id, homeTeamId |-> home, awayTeamId |-> away, datetime |-> datetime]

TodaysGames == << Game(2, 112, 119, 1), Game(1, 147, 111, 2) >>

\* what the schedule request can do: HTTP error, an exception, or a list of games
ScheduleAnswers ==
    {[kind |-> "http_error"], [kind |-> "raises"],
     [kind |-> "ok", games |-> <<>>], [kind |-> "ok", games |-> TodaysGames]}

\* the parsed live feed of a game (last names of batter and pitcher)
FeedOf(game) ==
    IF game.gameId = 1
    THEN [home_team_id |-> 147, away_team_id |-> 111, home_score |-> 3, away_score |-> 10,
          batter |-> <<"J", "u", "d", "g", "e">>, pitcher |-> <<"S", "a", "l", "e">>,
          inning |-> 7, inning_half |-> <<"t", "o", "p">>, final |-> FALSE, outs |-> 2,
          description |-> <<"A", "a", "r", "o", "n", " ", "J", "u", "d", "g", "e", " ",
                            "s", "t", "r", "i", "k", "e", "s", " ", "o", "u", "t", " ",
                            "s", "w", "i", "n", "g", "i", "n", "g", ".">>]
    ELSE [home_team_id |-> 112, away_team_id |-> 119, home_score |-> 0, away_score |-> 1,
          batter |-> <<"H", "a", "p", "p">>, pitcher |-> <<"M", "a", "y">>,
          inning |-> 9, inning_half |-> <<"b", "o", "t", "t", "o", "m">>, final |-> TRUE,
          outs |-> 3,
          description |-> <<"I", "a", "n", " ", "H", "a", "p", "p", " ", "f", "l", "i",
                            "e", "s", " ", "o", "u", "t", ",", " ", "e", "n", "d">>]

\* what the live-feed request can do: HTTP error, an exception (transport,
\* or a feed without plays), or a feed
FeedAnswers(game) ==
    {[kind |-> "http_error"], [kind |-> "raises"], [kind |-> "ok", feed |-> FeedOf(game)]}

\* MLBScoresInstallable.get_live_game_feed on an answer that did not raise
get_live_game_feed(answer) ==
    IF answer.kind = "http_error"
    THEN [board |-> create_board(<<>>), refresh |-> SOFT_RETRY_MS, fault |-> TRUE]
    ELSE [board |-> live_game_board(answer.feed), refresh |-> SOFT_RETRY_MS, fault |-> FALSE]

-----------------------------------------------------------------------------
(* Threads, registry and inputs *)

\* the background loop thread and the event-loop thread that runs the request
\* handlers one at a time
LoopThreads == {"loop"}
ApiThreads == {"api"}
Threads == LoopThreads \cup ApiThreads

\* Orchestrator._register_installables: the keys of the registry
InstallableNames == {"spotify", "clock", "mlb"}

\* names a caller may ask to activate
RequestedNames == InstallableNames \cup {"unknown"}

\* what should_update answers: TRUE for each registered variant; either answer
\* for a variant that uses the gate of the BaseInstallable contract
should_update_answers == IF variants = "registered" THEN {TRUE} ELSE BOOLEAN

\* what the remote display can do with a POST: accept it, refuse it, or the
\* transport raises
PostAnswers == {"200", "500", "raises"}

\* the grid the display shows when the process starts
InitialDisplay ==
    [i \in 1..VESTABOARD_ROWS |->
        IF i = 1 THEN <<8, 9>> \o Repeat(0, VESTABOARD_COLS - 2)
        ELSE Repeat(0, VESTABOARD_COLS)]

\* the grids of glyph strings a send-grid request carries: a 6 x 22 one and
\* one with a row too few
GridRequests ==
    { [i \in 1..6 |-> IF i = 2 THEN <<"o", "k">> \o Repeat(" ", 20) ELSE Repeat(" ", 22)],
      [i \in 1..5 |-> Repeat(" ", 22)] }

\* the locals of a thread that is in no call
\* a thread that holds no Row
NoRow == [none |-> TRUE]

NoCall ==
    [op |-> None, arg |-> None, ret |-> None, caller |-> None,
     previous_installable |-> None, installable_name |-> None,
     gate |-> None, board |-> NoBoard, refresh |-> 0, fault |-> FALSE,
     data |-> <<>>, status |-> None, adopted |-> FALSE,
     sleep_ms |-> 0, slept |-> 0, slice_ms |-> 0,
     payload |-> [kind |-> "none"], grid |-> <<>>,
     statuses |-> [n \in InstallableNames |-> None],
     row |-> NoRow, given_row |-> NoRow, given_board |-> NoBoard,
     tokens |-> <<>>, codes |-> <<>>, text |-> <<>>,
     given_schedule |-> <<>>, prioritized_schedule |-> <<>>, second |-> 0,
     lines |-> <<>>, chars |-> <<>>]

-----------------------------------------------------------------------------
(* Orchestrator control operations: orchestrator.py *)

\* a request handler enters set_active_installable and takes the lock
ActivateCall(t) ==
    /\ pc[t] = "idle" /\ lock = None
    /\ requests < MaxRequests /\ requests' = requests + 1
    /\ \E name \in RequestedNames :
          loc' = [loc EXCEPT ![t] = [NoCall EXCEPT !.op = "activate", !.arg = name]]
    /\ lock' = t
    /\ pc' = [pc EXCEPT ![t] = "activate_body"]
    /\ UNCHANGED <<rows, columns, active_board, api_key_set, display, active_installable,
                   last_update_time, running, next_refresh_increment, schedule,
                   current_game_index, spotify_client, variants, rounds>>

\* a variant of the body that skips the registry lookup and activates whatever
\* name it is given
set_active_installable_unchecked(t) ==
    /\ pc[t] = "activate_body" /\ lock = t
    /\ active_installable' = loc[t].arg
    /\ loc' = [loc EXCEPT ![t].ret = True, ![t].previous_installable = active_installable]
    /\ lock' = None
    /\ pc' = [pc EXCEPT ![t] = "idle"]
    /\ UNCHANGED <<rows, columns, active_board, api_key_set, display,
                   last_update_time, running, next_refresh_increment, schedule,
                   current_game_index, spotify_client, variants, requests, rounds>>

\* a variant of the body that activates only when nothing is active and
\* otherwise keeps the installable that is running
set_active_installable_first_only(t) ==
    /\ pc[t] = "activate_body" /\ lock = t
    /\ IF loc[t].arg \notin InstallableNames
       THEN /\ active_installable' = active_installable
            /\ loc' = [loc EXCEPT ![t].ret = False]
       ELSE /\ active_installable' =
                  IF active_installable = None THEN loc[t].arg ELSE active_installable
            /\ loc' = [loc EXCEPT ![t].ret = True,
                                  ![t].previous_installable = active_installable]
    /\ lock' = None
    /\ pc' = [pc EXCEPT ![t] = "idle"]
    /\ UNCHANGED <<rows, columns, active_board, api_key_set, display,
                   last_update_time, running, next_refresh_increment, schedule,
                   current_game_index, spotify_client, variants, requests, rounds>>

\* Orchestrator.set_active_installable, the body under the lock
set_active_installable(t) ==
    /\ pc[t] = "activate_body" /\ lock = t
    /\ IF loc[t].arg \notin InstallableNames
       THEN /\ active_installable' = active_installable
            /\ loc' = [loc EXCEPT ![t].ret = False]
       ELSE /\ active_installable' = loc[t].arg
            /\ loc' = [loc EXCEPT ![t].ret = True,
                                  ![t].previous_installable = active_installable]
    /\ lock' = None
    /\ pc' = [pc EXCEPT ![t] = "idle"]
    /\ UNCHANGED <<rows, columns, active_board, api_key_set, display,
                   last_update_time, running, next_refresh_increment, schedule,
                   current_game_index, spotify_client, variants, requests, rounds>>

\* a request handler enters deactivate_installable and takes the lock
DeactivateCall(t) ==
    /\ pc[t] = "idle" /\ lock = None
    /\ requests < MaxRequests /\ requests' = requests + 1
    /\ loc' = [loc EXCEPT ![t] = [NoCall EXCEPT !.op = "deactivate"]]
    /\ lock' = t
    /\ pc' = [pc EXCEPT ![t] = "deactivate_body"]
    /\ UNCHANGED <<rows, columns, active_board, api_key_set, display, active_installable,
                   last_update_time, running, next_refresh_increment, schedule,
                   current_game_index, spotify_client, variants, rounds>>

\* a variant of the body that also forgets the Device's board when it
\* deactivates
deactivate_installable_blanks(t) ==
    /\ pc[t] = "deactivate_body" /\ lock = t
    /\ IF active_installable = None
       THEN /\ active_installable' = active_installable
            /\ active_board' = active_board
            /\ loc' = [loc EXCEPT ![t].ret = False]
       ELSE /\ active_installable' = None
            /\ active_board' = NoBoard
            /\ loc' = [loc EXCEPT ![t].ret = True,
                                  ![t].previous_installable = active_installable]
    /\ lock' = None
    /\ pc' = [pc EXCEPT ![t] = "idle"]
    /\ UNCHANGED <<rows, columns, api_key_set, display,
                   last_update_time, running, next_refresh_increment, schedule,
                   current_game_index, spotify_client, variants, requests, rounds>>

\* a variant that marks the orchestrator idle with the word "none" in place
\* of None
deactivate_installable_names_none(t) ==
    /\ pc[t] = "deactivate_body" /\ lock = t
    /\ IF active_installable = None
       THEN /\ active_installable' = active_installable
            /\ loc' = [loc EXCEPT ![t].ret = False]
       ELSE /\ active_installable' = "none"
            /\ loc' = [loc EXCEPT ![t].ret = True,
                                  ![t].previous_installable = active_installable]
    /\ lock' = None
    /\ pc' = [pc EXCEPT ![t] = "idle"]
    /\ UNCHANGED <<rows, columns, active_board, api_key_set, display,
                   last_update_time, running, next_refresh_increment, schedule,
                   current_game_index, spotify_client, variants, requests, rounds>>

\* Orchestrator.deactivate_installable, the body under the lock
deactivate_installable(t) ==
    /\ pc[t] = "deactivate_body" /\ lock = t
    /\ IF active_installable = None
       THEN /\ active_installable' = active_installable
            /\ loc' = [loc EXCEPT ![t].ret = False]
       ELSE /\ active_installable' = None
            /\ loc' = [loc EXCEPT ![t].ret = True,
                                  ![t].previous_installable = active_installable]
    /\ lock' = None
    /\ pc' = [pc EXCEPT ![t] = "idle"]
    /\ UNCHANGED <<rows, columns, active_board, api_key_set, display,
                   last_update_time, running, next_refresh_increment, schedule,
                   current_game_index, spotify_client, variants, requests, rounds>>

\* a caller enters get_installable_status and takes the lock
StatusCall(t) ==
    /\ pc[t] = "idle" /\ lock = None
    /\ requests < MaxRequests /\ requests' = requests + 1
    /\ loc' = [loc EXCEPT ![t] = [NoCall EXCEPT !.op = "status"]]
    /\ lock' = t
    /\ pc' = [pc EXCEPT ![t] = "status_body"]
    /\ UNCHANGED <<rows, columns, active_board, api_key_set, display, active_installable,
                   last_update_time, running, next_refresh_increment, schedule,
                   current_game_index, spotify_client, variants, rounds>>

\* a variant of the body that marks every registered installable active
get_installable_status_all_active(t) ==
    /\ pc[t] = "status_body" /\ lock = t
    /\ loc' = [loc EXCEPT ![t].statuses = [name \in InstallableNames |-> "active"]]
    /\ lock' = None
    /\ pc' = [pc EXCEPT ![t] = "idle"]
    /\ UNCHANGED <<rows, columns, active_board, api_key_set, display, active_installable,
                   last_update_time, running, next_refresh_increment, schedule,
                   current_game_index, spotify_client, variants, requests, rounds>>

\* Orchestrator.get_installable_status (and get_installables_info), the body
\* under the lock: one entry per registered name
get_installable_status(t) ==
    /\ pc[t] = "status_body" /\ lock = t
    /\ loc' = [loc EXCEPT ![t].statuses =
                  [name \in InstallableNames |->
                      IF name = active_installable THEN "active" ELSE "inactive"]]
    /\ lock' = None
    /\ pc' = [pc EXCEPT ![t] = "idle"]
    /\ UNCHANGED <<rows, columns, active_board, api_key_set, display, active_installable,
                   last_update_time, running, next_refresh_increment, schedule,
                   current_game_index, spotify_client, variants, requests, rounds>>

\* the threads start_background_task creates, in the order of their creation;
\* a program has as many of them as its pc has places for
LoopPool == <<"loop", "loop2">>

Spawned ==
    {i \in 1..Len(LoopPool) : LoopPool[i] \in DOMAIN pc /\ pc[LoopPool[i]] # "not_started"}

\* self._thread: the thread created last
thread == LoopPool[CHOOSE i \in Spawned : \A j \in Spawned : j <= i]

\* Orchestrator.start_background_task: returns at once when already running,
\* otherwise sets the flag and starts the loop thread
start_background_task(t) ==
    /\ pc[t] = "idle"
    /\ loc' = [loc EXCEPT ![t] = [NoCall EXCEPT !.op = "start"]]
    /\ IF running
       THEN UNCHANGED <<running, pc>>
       ELSE /\ running' = TRUE
            /\ \E i \in 1..Len(LoopPool) :
                  /\ LoopPool[i] \in DOMAIN pc /\ pc[LoopPool[i]] = "not_started"
                  /\ \A j \in 1..(i - 1) : j \in Spawned
                  /\ pc' = [pc EXCEPT ![LoopPool[i]] = "loop_top"]
    /\ UNCHANGED <<rows, columns, active_board, api_key_set, display, active_installable,
                   last_update_time, lock, next_refresh_increment, schedule,
                   current_game_index, spotify_client, variants, requests, rounds>>

\* Orchestrator.stop_background_task, called when the application shuts down:
\* returns at once when not running, otherwise clears the flag and joins the
\* loop thread
stop_background_task(t) ==
    /\ pc[t] = "idle"
    /\ loc' = [loc EXCEPT ![t] = [NoCall EXCEPT !.op = "stop"]]
    /\ IF running
       THEN /\ running' = FALSE
            /\ pc' = [pc EXCEPT ![t] = "joining"]
       ELSE /\ running' = running
            /\ pc' = [pc EXCEPT ![t] = "stopped"]
    /\ UNCHANGED <<rows, columns, active_board, api_key_set, display, active_installable,
                   last_update_time, lock, next_refresh_increment, schedule,
                   current_game_index, spotify_client, variants, requests, rounds>>

\* self._thread.join(timeout=5.0) returns: the loop thread has ended, or the
\* five seconds are over while it is still alive
join_return(t) ==
    /\ pc[t] = "joining"
    /\ loc' = [loc EXCEPT ![t].ret =
                  IF pc[thread] = "exited" THEN "joined" ELSE "timeout"]
    /\ pc' = [pc EXCEPT ![t] = "stopped"]
    /\ UNCHANGED <<rows, columns, active_board, api_key_set, display, active_installable,
                   last_update_time, running, lock, next_refresh_increment, schedule,
                   current_game_index, spotify_client, variants, requests, rounds>>

-----------------------------------------------------------------------------
(* Device.update_message, step by step: vestaboard/models.py *)

\* up to the POST: the caller's board is stamped with the Device's dimensions;
\* without the credential the call raises; otherwise the body is built and sent
update_message_prepare(t) ==
    /\ pc[t] = "update_message"
    /\ LET new_board == stamp_dimensions(loc[t].board)
       IN  IF ~api_key_set
           THEN /\ loc' = [loc EXCEPT ![t].board = new_board]
                /\ pc' = [pc EXCEPT ![t] = "update_message_raised"]
           ELSE /\ loc' = [loc EXCEPT ![t].board = new_board,
                                      ![t].data = message_data(new_board)]
                /\ pc' = [pc EXCEPT ![t] = "posting"]
    /\ UNCHANGED <<rows, columns, active_board, api_key_set, display, active_installable,
                   last_update_time, running, lock, next_refresh_increment, schedule,
                   current_game_index, spotify_client, variants, requests, rounds>>

\* the remote display handles the POST: on 200 it shows the body
remote_post(t) ==
    /\ pc[t] = "posting"
    /\ \E answer \in PostAnswers :
          /\ display' = IF answer = "200" THEN loc[t].data ELSE display
          /\ loc' = [loc EXCEPT ![t].status = answer]
    /\ pc' = [pc EXCEPT ![t] = "response"]
    /\ UNCHANGED <<rows, columns, active_board, api_key_set, active_installable,
                   last_update_time, running, lock, next_refresh_increment, schedule,
                   current_game_index, spotify_client, variants, requests, rounds>>

\* a variant that adopts the caller's board before it looks at the status
update_message_response_adopts_first(t) ==
    /\ pc[t] = "response"
    /\ active_board' = loc[t].board
    /\ IF loc[t].status = "200"
       THEN /\ loc' = [loc EXCEPT ![t].adopted = TRUE]
            /\ pc' = [pc EXCEPT ![t] = "update_message_returned"]
       ELSE /\ loc' = loc
            /\ pc' = [pc EXCEPT ![t] = "update_message_raised"]
    /\ UNCHANGED <<rows, columns, api_key_set, display, active_installable,
                   last_update_time, running, lock, next_refresh_increment, schedule,
                   current_game_index, spotify_client, variants, requests, rounds>>

\* after the POST: on status 200 the caller's board becomes active_board,
\* otherwise the call raises
update_message_response(t) ==
    /\ pc[t] = "response"
    /\ IF loc[t].status = "200"
       THEN /\ active_board' = loc[t].board
            /\ loc' = [loc EXCEPT ![t].adopted = TRUE]
            /\ pc' = [pc EXCEPT ![t] = "update_message_returned"]
       ELSE /\ active_board' = active_board
            /\ loc' = loc
            /\ pc' = [pc EXCEPT ![t] = "update_message_raised"]
    /\ UNCHANGED <<rows, columns, api_key_set, display, active_installable,
                   last_update_time, running, lock, next_refresh_increment, schedule,
                   current_game_index, spotify_client, variants, requests, rounds>>

-----------------------------------------------------------------------------
(* Device.get_board, step by step: vestaboard/models.py *)

\* a JSON value of a layout row as get_board receives it: an integer, a string
\* of digits, any other string, null, or a float that int() cannot convert
Cell(n) == [int |-> n]

\* int(x) of one element: the integer, 0 on ValueError or TypeError
cell_int(x) ==
    IF "int" \in DOMAIN x THEN x.int
    ELSE IF "digits" \in DOMAIN x THEN int(x.digits)
    ELSE 0

\* int(x) raises something other than ValueError or TypeError (OverflowError
\* on Infinity), which the handler of the row catches
cell_overflows(x) == "infinity" \in DOMAIN x

\* the list a row_data stands for: the list itself, the list a JSON string
\* parses to, and [] for an unparseable string or anything that is no list
row_cells(raw_row) ==
    IF raw_row.kind \in {"list", "json_list"} THEN raw_row.cells ELSE <<>>

\* one row of the layout: its integers padded or truncated to the Device's
\* width, or a blank row when the conversion raised
processed_row(raw_row) ==
    LET cells == row_cells(raw_row)
    IN  IF \E j \in 1..Len(cells) : cell_overflows(cells[j])
        THEN Repeat(0, columns)
        ELSE LET ints == [j \in 1..Len(cells) |-> cell_int(cells[j])]
             IN  IF Len(ints) < columns THEN ints \o Repeat(0, columns - Len(ints))
                 ELSE Take(ints, columns)

\* the layout of a currentMessage: the list itself, the list a JSON string
\* parses to, and [] when it is missing, unparseable or no list
layout_rows(current_message) ==
    IF current_message.layout.kind \in {"list", "json_list"}
    THEN current_message.layout.rows
    ELSE <<>>

\* row lists the display can report: its rows as integers
IntRows(grid) ==
    [i \in 1..Len(grid) |->
        [kind |-> "list", cells |-> [j \in 1..Len(grid[i]) |-> Cell(grid[i][j])]]]

\* what the GET can do while the program runs: the transport raises, the
\* display refuses, or it reports the layout it shows
ProgramGetAnswers ==
    { [kind |-> "raises"], [kind |-> "status", code |-> 500],
      [kind |-> "message", layout |-> [kind |-> "list", rows |-> IntRows(display)]] }

\* payload shapes a 200 answer can carry beyond those: a body that is no JSON,
\* JSON that is no object, an object without currentMessage (a Board or not),
\* currentMessage null or of another type, and layouts that are missing,
\* strings, no lists, short, long or hold rows and cells of other types
ShapedGetAnswers ==
    { [kind |-> "not_json"], [kind |-> "json_list"], [kind |-> "no_current_message"],
      [kind |-> "direct_board",
       board |-> Board(2, 3, << Row(0, 3, "left", <<1, 2, 3>>), Row(1, 3, "left", <<4>>) >>)],
      [kind |-> "null"], [kind |-> "string"] }
    \cup
    { [kind |-> "message", layout |-> l] :
        l \in { [kind |-> "missing"], [kind |-> "bad_string"], [kind |-> "number"],
                [kind |-> "json_list", rows |-> IntRows(<< <<5, 6>> >>)],
                [kind |-> "list", rows |-> IntRows([i \in 1..7 |-> Repeat(i, 25)])],
                [kind |-> "list",
                 rows |-> << [kind |-> "list",
                              cells |-> << Cell(9), [digits |-> <<"4", "2">>],
                                           [text |-> "x"], [null |-> TRUE] >>],
                             [kind |-> "json_list", cells |-> << Cell(7) >>],
                             [kind |-> "bad_string"],
                             [kind |-> "number"],
                             [kind |-> "list", cells |-> << Cell(1), [infinity |-> TRUE] >>] >>] } }

GetAnswers ==
    IF variants = "device" THEN ProgramGetAnswers \cup ShapedGetAnswers
    ELSE ProgramGetAnswers

\* the board get_board leaves in active_board for an answer: the blank board on
\* currentMessage null and on an object that is no Board; the validated Board,
\* stamped with the Device's dimensions; the converted layout, one Row per
\* layout row; and the board held before when an exception ended the call
\* before any assignment (transport error, status other than 200, a body that
\* is no JSON object, a currentMessage that is neither null nor an object)
get_board_result(answer, previous) ==
    IF answer.kind \in {"null", "no_current_message"} THEN blank_board
    ELSE IF answer.kind = "direct_board" THEN stamp_dimensions(answer.board)
    ELSE IF answer.kind = "message"
    THEN LET layout == layout_rows(answer)
         IN  board_from_layout([i \in 1..Len(layout) |-> processed_row(layout[i])])
    ELSE previous

\* up to the GET: without the credential the call raises inside its try and
\* the handler logs the exception
get_board_prepare(t) ==
    /\ pc[t] = "get_board"
    /\ IF ~api_key_set
       THEN /\ loc' = [loc EXCEPT ![t].payload = [kind |-> "no_credential"]]
            /\ pc' = [pc EXCEPT ![t] = "get_board_returned"]
       ELSE /\ loc' = loc
            /\ pc' = [pc EXCEPT ![t] = "getting"]
    /\ UNCHANGED <<rows, columns, active_board, api_key_set, display, active_installable,
                   last_update_time, running, lock, next_refresh_increment, schedule,
                   current_game_index, spotify_client, variants, requests, rounds>>

\* the remote display handles the GET
remote_get(t) ==
    /\ pc[t] = "getting"
    /\ \E answer \in GetAnswers : loc' = [loc EXCEPT ![t].payload = answer]
    /\ pc' = [pc EXCEPT ![t] = "get_response"]
    /\ UNCHANGED <<rows, columns, active_board, api_key_set, display, active_installable,
                   last_update_time, running, lock, next_refresh_increment, schedule,
                   current_game_index, spotify_client, variants, requests, rounds>>

\* a variant whose handler lets the exception pass on to the caller
get_board_response_propagates(t) ==
    /\ pc[t] = "get_response"
    /\ active_board' = get_board_result(loc[t].payload, active_board)
    /\ pc' = [pc EXCEPT ![t] =
                 IF loc[t].payload.kind \in {"no_current_message", "direct_board", "message"}
                 THEN "get_board_returned" ELSE "get_board_raised"]
    /\ UNCHANGED <<rows, columns, api_key_set, display, active_installable,
                   last_update_time, running, lock, next_refresh_increment, schedule,
                   current_game_index, spotify_client, variants, requests, rounds, loc>>

\* after the GET: the answer is converted and assigned to active_board, or an
\* exception is logged; either way get_board returns
get_board_response(t) ==
    /\ pc[t] = "get_response"
    /\ active_board' = get_board_result(loc[t].payload, active_board)
    /\ pc' = [pc EXCEPT ![t] = "get_board_returned"]
    /\ UNCHANGED <<rows, columns, api_key_set, display, active_installable,
                   last_update_time, running, lock, next_refresh_increment, schedule,
                   current_game_index, spotify_client, variants, requests, rounds, loc>>

-----------------------------------------------------------------------------
(* send_grid request handler: api.py *)

\* send_grid up to the Device call: a grid that is not 6 x 22 is refused with
\* status 400, otherwise its Board is handed to Device.update_message
send_grid(t) ==
    /\ pc[t] = "idle"
    /\ requests < MaxRequests /\ requests' = requests + 1
    /\ \E grid \in GridRequests :
          IF Len(grid) # 6 \/ \E i \in 1..Len(grid) : Len(grid[i]) # 22
          THEN /\ loc' = [loc EXCEPT ![t] = [NoCall EXCEPT !.op = "send_grid", !.ret = "400"]]
               /\ pc' = pc
          ELSE /\ loc' = [loc EXCEPT ![t] =
                    [NoCall EXCEPT !.op = "send_grid", !.caller = "send_grid",
                        !.board = Board(6, 22,
                            [i \in 1..Len(grid) |->
                                Row(i - 1, 22, "left",
                                    fit(convert_to_character_code(grid[i]), 22))])]]
               /\ pc' = [pc EXCEPT ![t] = "update_message"]
    /\ UNCHANGED <<rows, columns, active_board, api_key_set, display, active_installable,
                   last_update_time, running, lock, next_refresh_increment, schedule,
                   current_game_index, spotify_client, variants, rounds>>

\* send_grid after the Device call: success, or status 500 when it raised
send_grid_return(t) ==
    /\ pc[t] \in {"update_message_returned", "update_message_raised"}
    /\ loc[t].caller = "send_grid"
    /\ loc' = [loc EXCEPT ![t].ret =
                  IF pc[t] = "update_message_returned" THEN "200" ELSE "500",
                          ![t].caller = None, ![t].data = <<>>, ![t].status = None,
                          ![t].board = NoBoard]
    /\ pc' = [pc EXCEPT ![t] = "idle"]
    /\ UNCHANGED <<rows, columns, active_board, api_key_set, display, active_installable,
                   last_update_time, running, lock, next_refresh_increment, schedule,
                   current_game_index, spotify_client, variants, requests, rounds>>

-----------------------------------------------------------------------------
(* get_current_board request handler: api.py *)

\* the gridCodes of the answer: each row's codes cut or padded to 22, the row
\* list padded with blank rows and cut to 6
grid_codes(board) ==
    LET coded == [i \in 1..Len(board.message) |-> fit(board.message[i].line, 22)]
    IN  Take(coded \o Repeat(Repeat(0, 22), 6 - Min(6, Len(coded))), 6)

\* the handler calls Device.get_board
get_current_board(t) ==
    /\ pc[t] = "idle"
    /\ requests < MaxRequests /\ requests' = requests + 1
    /\ loc' = [loc EXCEPT ![t] = [NoCall EXCEPT !.op = "get_current_board",
                                                !.caller = "get_current_board"]]
    /\ pc' = [pc EXCEPT ![t] = "get_board"]
    /\ UNCHANGED <<rows, columns, active_board, api_key_set, display, active_installable,
                   last_update_time, running, lock, next_refresh_increment, schedule,
                   current_game_index, spotify_client, variants, rounds>>

\* after get_board: an exception from it would reset active_board to None;
\* `if device.active_board is None` answers with the empty grid
get_current_board_check(t) ==
    /\ pc[t] \in {"get_board_returned", "get_board_raised"}
    /\ loc[t].caller = "get_current_board"
    /\ active_board' = IF pc[t] = "get_board_raised" THEN NoBoard ELSE active_board
    /\ IF active_board' = NoBoard
       THEN /\ loc' = [loc EXCEPT ![t].ret = "200", ![t].caller = None,
                                  ![t].payload = [kind |-> "none"],
                                  ![t].grid = Repeat(Repeat(0, 22), 6)]
            /\ pc' = [pc EXCEPT ![t] = "idle"]
       ELSE /\ loc' = [loc EXCEPT ![t].payload = [kind |-> "none"]]
            /\ pc' = [pc EXCEPT ![t] = "read_board"]
    /\ UNCHANGED <<rows, columns, api_key_set, display, active_installable,
                   last_update_time, running, lock, next_refresh_increment, schedule,
                   current_game_index, spotify_client, variants, requests, rounds>>

\* a variant that answers with the first row of the board only
get_current_board_read_first_row(t) ==
    /\ pc[t] = "read_board"
    /\ IF active_board = NoBoard
       THEN loc' = [loc EXCEPT ![t].ret = "500", ![t].caller = None]
       ELSE loc' = [loc EXCEPT ![t].ret = "200", ![t].caller = None,
                               ![t].grid = Take(grid_codes(active_board), 1)
                                              \o Repeat(Repeat(0, 22), 5)]
    /\ pc' = [pc EXCEPT ![t] = "idle"]
    /\ UNCHANGED <<rows, columns, active_board, api_key_set, display, active_installable,
                   last_update_time, running, lock, next_refresh_increment, schedule,
                   current_game_index, spotify_client, variants, requests, rounds>>

\* `for row in device.active_board.message`: the rows of the board that is
\* active_board now are converted and returned
get_current_board_read(t) ==
    /\ pc[t] = "read_board"
    /\ IF active_board = NoBoard
       THEN loc' = [loc EXCEPT ![t].ret = "500", ![t].caller = None]
       ELSE loc' = [loc EXCEPT ![t].ret = "200", ![t].caller = None,
                               ![t].grid = grid_codes(active_board)]
    /\ pc' = [pc EXCEPT ![t] = "idle"]
    /\ UNCHANGED <<rows, columns, active_board, api_key_set, display, active_installable,
                   last_update_time, running, lock, next_refresh_increment, schedule,
                   current_game_index, spotify_client, variants, requests, rounds>>

-----------------------------------------------------------------------------
(* generate_board of the three registered installables *)

GenerateResult(raised, board, refresh, sets_refresh, fault, sched, index, client) ==
    [raised |-> raised, board |-> board, refresh |-> refresh,
     sets_refresh |-> sets_refresh, fault |-> fault,
     schedule |-> sched, current_game_index |-> index, spotify_client |-> client]

Raised(fault, sched, index, client) ==
    GenerateResult(TRUE, NoBoard, 0, FALSE, fault, sched, index, client)

\* ClockInstallable.generate_board over the wall-clock readings
clock_outcomes ==
    { LET r == clock_generate_board(tm)
      IN  GenerateResult(FALSE, r.board, r.refresh, FALSE, FALSE,
                         schedule, current_game_index, spotify_client)
      : tm \in ClockTimes }

\* SpotifyInstallable.generate_board with _get_spotify_client: a client that
\* exists is kept, one that does not is created or fails to be
spotify_outcomes ==
    { LET r == spotify_generate_board(have, answer)
      IN  GenerateResult(r.raised, r.board, r.refresh, r.sets_refresh, r.fault,
                         schedule, current_game_index, have)
      : have \in (IF spotify_client THEN {TRUE} ELSE BOOLEAN),
        answer \in SpotifyAnswers }

\* MLBScoresInstallable.generate_board from a schedule in hand
mlb_feed_outcomes(sched) ==
    LET prioritized_schedule == game_prioritizer(sched)
        n == Len(prioritized_schedule)
        current_game == prioritized_schedule[(current_game_index % n) + 1]
    IN  { IF answer.kind = "raises"
          THEN Raised(TRUE, sched, current_game_index, spotify_client)
          ELSE LET r == get_live_game_feed(answer)
               IN  GenerateResult(FALSE, r.board, r.refresh, FALSE, r.fault, sched,
                                  (current_game_index + 1) % n, spotify_client)
          : answer \in FeedAnswers(current_game) }

\* MLBScoresInstallable.generate_board: the schedule is fetched when none is
\* held; without games a blank board and a one-minute delay are returned
mlb_outcomes ==
    IF schedule # <<>> THEN mlb_feed_outcomes(schedule)
    ELSE UNION { IF answer.kind = "raises"
                 THEN {Raised(TRUE, schedule, current_game_index, spotify_client)}
                 ELSE IF answer.kind = "http_error" \/ answer.games = <<>>
                 THEN {GenerateResult(FALSE, create_board(<<>>), NO_GAMES_RETRY_MS, FALSE,
                                      TRUE, <<>>, current_game_index, spotify_client)}
                 ELSE mlb_feed_outcomes(answer.games)
                 : answer \in ScheduleAnswers }

generate_board_outcomes(name) ==
    IF name = "clock" THEN clock_outcomes
    ELSE IF name = "spotify" THEN spotify_outcomes
    ELSE mlb_outcomes

-----------------------------------------------------------------------------
(* Orchestrator.update_board and BaseInstallable.update_board *)

\* Orchestrator.update_board takes the lock
update_board_lock(t) ==
    /\ pc[t] = "update_board" /\ lock = None
    /\ lock' = t
    /\ pc' = [pc EXCEPT ![t] = "update_board_read"]
    /\ UNCHANGED <<rows, columns, active_board, api_key_set, display, active_installable,
                   last_update_time, running, next_refresh_increment, schedule,
                   current_game_index, spotify_client, variants, requests, rounds, loc>>

\* a variant that does not look whether anything is active before it goes on
\* to the installable
update_board_read_unguarded(t) ==
    /\ pc[t] = "update_board_read" /\ lock = t
    /\ loc' = [loc EXCEPT ![t].installable_name = active_installable]
    /\ pc' = [pc EXCEPT ![t] = "should_update"]
    /\ lock' = None
    /\ UNCHANGED <<rows, columns, active_board, api_key_set, display, active_installable,
                   last_update_time, running, next_refresh_increment, schedule,
                   current_game_index, spotify_client, variants, requests, rounds>>

\* a variant that calls the installable from inside the `with` block, the
\* lock still held
update_board_read_keeps_lock(t) ==
    /\ pc[t] = "update_board_read" /\ lock = t
    /\ IF active_installable = None
       THEN /\ loc' = [loc EXCEPT ![t].ret = False]
            /\ pc' = [pc EXCEPT ![t] = "update_board_done"]
            /\ lock' = None
       ELSE /\ loc' = [loc EXCEPT ![t].installable_name = active_installable]
            /\ pc' = [pc EXCEPT ![t] = "should_update"]
            /\ lock' = lock
    /\ UNCHANGED <<rows, columns, active_board, api_key_set, display, active_installable,
                   last_update_time, running, next_refresh_increment, schedule,
                   current_game_index, spotify_client, variants, requests, rounds>>

\* under the lock: False when nothing is active, otherwise the name is read;
\* the lock is released before the installable is called
update_board_read(t) ==
    /\ pc[t] = "update_board_read" /\ lock = t
    /\ IF active_installable = None
       THEN /\ loc' = [loc EXCEPT ![t].ret = False]
            /\ pc' = [pc EXCEPT ![t] = "update_board_done"]
       ELSE /\ loc' = [loc EXCEPT ![t].installable_name = active_installable]
            /\ pc' = [pc EXCEPT ![t] = "should_update"]
    /\ lock' = None
    /\ UNCHANGED <<rows, columns, active_board, api_key_set, display, active_installable,
                   last_update_time, running, next_refresh_increment, schedule,
                   current_game_index, spotify_client, variants, requests, rounds>>

\* a variant that reports a declined update as a failed one
update_board_gate_declined_is_failure(t) ==
    /\ pc[t] = "should_update"
    /\ \E answer \in should_update_answers :
          IF answer
          THEN /\ loc' = [loc EXCEPT ![t].gate = True]
               /\ pc' = [pc EXCEPT ![t] = "generate_board"]
          ELSE /\ loc' = [loc EXCEPT ![t].gate = False, ![t].ret = False]
               /\ pc' = [pc EXCEPT ![t] = "update_board_done"]
    /\ UNCHANGED <<rows, columns, active_board, api_key_set, display, active_installable,
                   last_update_time, running, lock, next_refresh_increment, schedule,
                   current_game_index, spotify_client, variants, requests, rounds>>

\* installable.should_update(): when it declines, update_board returns True
update_board_gate(t) ==
    /\ pc[t] = "should_update"
    /\ \E answer \in should_update_answers :
          IF answer
          THEN /\ loc' = [loc EXCEPT ![t].gate = True]
               /\ pc' = [pc EXCEPT ![t] = "generate_board"]
          ELSE /\ loc' = [loc EXCEPT ![t].gate = False, ![t].ret = True]
               /\ pc' = [pc EXCEPT ![t] = "update_board_done"]
    /\ UNCHANGED <<rows, columns, active_board, api_key_set, display, active_installable,
                   last_update_time, running, lock, next_refresh_increment, schedule,
                   current_game_index, spotify_client, variants, requests, rounds>>

\* BaseInstallable.update_board, the generate_board call: when it raises the
\* update returns False, otherwise the board goes to Device.update_message
generate_board(t) ==
    /\ pc[t] = "generate_board"
    /\ \E r \in generate_board_outcomes(loc[t].installable_name) :
          /\ schedule' = r.schedule
          /\ current_game_index' = r.current_game_index
          /\ spotify_client' = r.spotify_client
          /\ next_refresh_increment' =
                IF r.sets_refresh
                THEN [next_refresh_increment EXCEPT ![loc[t].installable_name] = r.refresh]
                ELSE next_refresh_increment
          /\ IF r.raised
             THEN /\ loc' = [loc EXCEPT ![t].ret = False, ![t].fault = r.fault]
                  /\ pc' = [pc EXCEPT ![t] = "update_board_done"]
             ELSE /\ loc' = [loc EXCEPT ![t].board = r.board, ![t].refresh = r.refresh,
                                        ![t].fault = r.fault, ![t].caller = "update_board"]
                  /\ pc' = [pc EXCEPT ![t] = "update_message"]
    /\ UNCHANGED <<rows, columns, active_board, api_key_set, display, active_installable,
                   last_update_time, running, lock, variants, requests, rounds>>

\* a variant in which the exception of a failed Device call leaves
\* update_board and ends the loop, whose finally clause clears the flag
installable_update_board_return_propagates(t) ==
    /\ pc[t] \in {"update_message_returned", "update_message_raised"}
    /\ loc[t].caller = "update_board"
    /\ IF pc[t] = "update_message_returned"
       THEN /\ next_refresh_increment' =
                  [next_refresh_increment EXCEPT ![loc[t].installable_name] = loc[t].refresh]
            /\ loc' = [loc EXCEPT ![t].ret = True, ![t].caller = None, ![t].data = <<>>,
                                  ![t].status = None, ![t].board = NoBoard]
            /\ pc' = [pc EXCEPT ![t] = "mark_update"]
            /\ running' = running
       ELSE /\ next_refresh_increment' = next_refresh_increment
            /\ loc' = [loc EXCEPT ![t].ret = False, ![t].caller = None, ![t].data = <<>>,
                                  ![t].status = None, ![t].board = NoBoard]
            /\ pc' = [pc EXCEPT ![t] = "exited"]
            /\ running' = FALSE
    /\ UNCHANGED <<rows, columns, active_board, api_key_set, display, active_installable,
                   last_update_time, lock, schedule, current_game_index,
                   spotify_client, variants, requests, rounds>>

\* BaseInstallable.update_board after Device.update_message: the refresh delay
\* is recorded and True returned, or False when the Device call raised
installable_update_board_return(t) ==
    /\ pc[t] \in {"update_message_returned", "update_message_raised"}
    /\ loc[t].caller = "update_board"
    /\ IF pc[t] = "update_message_returned"
       THEN /\ next_refresh_increment' =
                  [next_refresh_increment EXCEPT ![loc[t].installable_name] = loc[t].refresh]
            /\ loc' = [loc EXCEPT ![t].ret = True, ![t].caller = None, ![t].data = <<>>,
                                  ![t].status = None, ![t].board = NoBoard]
            /\ pc' = [pc EXCEPT ![t] = "mark_update"]
       ELSE /\ next_refresh_increment' = next_refresh_increment
            /\ loc' = [loc EXCEPT ![t].ret = False, ![t].caller = None, ![t].data = <<>>,
                                  ![t].status = None, ![t].board = NoBoard]
            /\ pc' = [pc EXCEPT ![t] = "update_board_done"]
    /\ UNCHANGED <<rows, columns, active_board, api_key_set, display, active_installable,
                   last_update_time, running, lock, schedule, current_game_index,
                   spotify_client, variants, requests, rounds>>

\* Orchestrator.update_board on success takes the lock again
mark_update_lock(t) ==
    /\ pc[t] = "mark_update" /\ lock = None
    /\ lock' = t
    /\ pc' = [pc EXCEPT ![t] = "mark_update_body"]
    /\ UNCHANGED <<rows, columns, active_board, api_key_set, display, active_installable,
                   last_update_time, running, next_refresh_increment, schedule,
                   current_game_index, spotify_client, variants, requests, rounds, loc>>

\* under the lock: last_update_time = time.time(); the number of the loop's
\* round stands for the wall-clock time of its tick
mark_update(t) ==
    /\ pc[t] = "mark_update_body" /\ lock = t
    /\ last_update_time' = rounds
    /\ lock' = None
    /\ pc' = [pc EXCEPT ![t] = "update_board_done"]
    /\ UNCHANGED <<rows, columns, active_board, api_key_set, display, active_installable,
                   running, next_refresh_increment, schedule,
                   current_game_index, spotify_client, variants, requests, rounds, loc>>

-----------------------------------------------------------------------------
(* The background loop: orchestrator.py start_background_task._background_loop *)

\* seconds the loop sleeps while nothing is active (update_interval)
UPDATE_INTERVAL_S == 60

\* the longest slice of the sleep after a tick, in milliseconds
SLEEP_SLICE_MS == 1000

\* `while self._running`: the next round starts, or the loop ends and its
\* finally clause clears the flag
loop_top(t) ==
    /\ pc[t] = "loop_top"
    /\ IF running
       THEN /\ rounds < MaxRounds + (Cardinality(Spawned) - 1) /\ rounds' = rounds + 1
            /\ pc' = [pc EXCEPT ![t] = "loop_read_lock"]
            /\ running' = running
       ELSE /\ rounds' = rounds
            /\ pc' = [pc EXCEPT ![t] = "exited"]
            /\ running' = FALSE
    /\ loc' = [loc EXCEPT ![t] = NoCall]
    /\ UNCHANGED <<rows, columns, active_board, api_key_set, display, active_installable,
                   last_update_time, lock, next_refresh_increment, schedule,
                   current_game_index, spotify_client, variants, requests>>

\* a variant in which the loop reads the active name without waiting for the
\* lock to be free
loop_read_lock_barges(t) ==
    /\ pc[t] = "loop_read_lock"
    /\ lock' = t
    /\ pc' = [pc EXCEPT ![t] = "loop_read"]
    /\ UNCHANGED <<rows, columns, active_board, api_key_set, display, active_installable,
                   last_update_time, running, next_refresh_increment, schedule,
                   current_game_index, spotify_client, variants, requests, rounds, loc>>

\* the loop takes the lock to read the active name
loop_read_lock(t) ==
    /\ pc[t] = "loop_read_lock" /\ lock = None
    /\ lock' = t
    /\ pc' = [pc EXCEPT ![t] = "loop_read"]
    /\ UNCHANGED <<rows, columns, active_board, api_key_set, display, active_installable,
                   last_update_time, running, next_refresh_increment, schedule,
                   current_game_index, spotify_client, variants, requests, rounds, loc>>

\* under the lock: with nothing active the loop sleeps, otherwise it calls
\* update_board
loop_read(t) ==
    /\ pc[t] = "loop_read" /\ lock = t
    /\ lock' = None
    /\ IF active_installable = None
       THEN /\ pc' = [pc EXCEPT ![t] = "idle_sleep"]
            /\ loc' = loc
       ELSE /\ pc' = [pc EXCEPT ![t] = "update_board"]
            /\ loc' = [loc EXCEPT ![t].op = "update_board"]
    /\ UNCHANGED <<rows, columns, active_board, api_key_set, display, active_installable,
                   last_update_time, running, next_refresh_increment, schedule,
                   current_game_index, spotify_client, variants, requests, rounds>>

\* get_active_installable after update_board: the loop takes the lock
loop_after_lock(t) ==
    /\ pc[t] = "update_board_done" /\ lock = None
    /\ lock' = t
    /\ pc' = [pc EXCEPT ![t] = "loop_after_read"]
    /\ UNCHANGED <<rows, columns, active_board, api_key_set, display, active_installable,
                   last_update_time, running, next_refresh_increment, schedule,
                   current_game_index, spotify_client, variants, requests, rounds, loc>>

\* under the lock the active installable is read; the loop then sleeps for its
\* get_refresh_time(), or for update_interval when nothing is active
loop_after_read(t) ==
    /\ pc[t] = "loop_after_read" /\ lock = t
    /\ lock' = None
    /\ IF active_installable = None
       THEN /\ pc' = [pc EXCEPT ![t] = "idle_sleep"]
            /\ loc' = [loc EXCEPT ![t] = NoCall]
       ELSE /\ pc' = [pc EXCEPT ![t] = "sleep"]
            /\ loc' = [loc EXCEPT ![t] =
                         [NoCall EXCEPT !.sleep_ms = next_refresh_increment[active_installable]]]
    /\ UNCHANGED <<rows, columns, active_board, api_key_set, display, active_installable,
                   last_update_time, running, next_refresh_increment, schedule,
                   current_game_index, spotify_client, variants, requests, rounds>>

\* `while slept < refresh_time and self._running`: one more slice of at most
\* a second is slept, or the sleep is over (times in milliseconds)
loop_sleep(t) ==
    /\ pc[t] = "sleep"
    /\ IF loc[t].slept < loc[t].sleep_ms /\ running
       THEN /\ loc' = [loc EXCEPT ![t].slice_ms = Min(SLEEP_SLICE_MS, loc[t].sleep_ms - loc[t].slept),
                                  ![t].slept = loc[t].slept + SLEEP_SLICE_MS]
            /\ pc' = pc
       ELSE /\ loc' = loc
            /\ pc' = [pc EXCEPT ![t] = "loop_top"]
    /\ UNCHANGED <<rows, columns, active_board, api_key_set, display, active_installable,
                   last_update_time, running, lock, next_refresh_increment, schedule,
                   current_game_index, spotify_client, variants, requests, rounds>>

\* time.sleep(update_interval): one sleep of the whole interval
loop_idle_sleep(t) ==
    /\ pc[t] = "idle_sleep"
    /\ pc' = [pc EXCEPT ![t] = "loop_top"]
    /\ loc' = [loc EXCEPT ![t].sleep_ms = UPDATE_INTERVAL_S * 1000,
                          ![t].slept = UPDATE_INTERVAL_S * 1000,
                          ![t].slice_ms = UPDATE_INTERVAL_S * 1000]
    /\ UNCHANGED <<rows, columns, active_board, api_key_set, display, active_installable,
                   last_update_time, running, lock, next_refresh_increment, schedule,
                   current_game_index, spotify_client, variants, requests, rounds>>

-----------------------------------------------------------------------------
(* The program: the Device and the Orchestrator as api.py constructs them *)

\* Device(rows=6, columns=22): its constructor fetches the board, which gives
\* None without the credential or on a transport error
InitProgram(kind) ==
    /\ rows = 6 /\ columns = 22
    /\ api_key_set \in BOOLEAN
    /\ display = InitialDisplay
    /\ active_board \in (IF api_key_set THEN {NoBoard, board_from_layout(InitialDisplay)}
                         ELSE {NoBoard})
    /\ active_installable = None
    /\ last_update_time = 0
    /\ running = FALSE
    /\ lock = None
    /\ next_refresh_increment = [n \in InstallableNames |-> 0]
    /\ schedule = <<>>
    /\ current_game_index = 0
    /\ spotify_client = FALSE
    /\ variants = kind
    /\ requests = 0
    /\ rounds = 0
    /\ pc = [t \in Threads |-> IF t \in LoopThreads THEN "not_started" ELSE "idle"]
    /\ loc = [t \in Threads |-> NoCall]

Init == InitProgram("registered")

Next ==
    \/ \E t \in ApiThreads :
          \/ ActivateCall(t) \/ set_active_installable(t)
          \/ DeactivateCall(t) \/ deactivate_installable(t)
          \/ start_background_task(t)
          \/ stop_background_task(t) \/ join_return(t)
          \/ send_grid(t) \/ send_grid_return(t)
          \/ StatusCall(t) \/ get_installable_status(t)
          \/ get_current_board(t) \/ get_current_board_check(t)
          \/ get_current_board_read(t)
    \/ \E t \in Threads :
          \/ update_message_prepare(t) \/ remote_post(t) \/ update_message_response(t)
    \/ \E t \in ApiThreads :
          \/ get_board_prepare(t) \/ remote_get(t) \/ get_board_response(t)
    \/ \E t \in LoopThreads :
          \/ loop_top(t) \/ loop_read_lock(t) \/ loop_read(t)
          \/ update_board_lock(t) \/ update_board_read(t) \/ update_board_gate(t)
          \/ generate_board(t) \/ installable_update_board_return(t)
          \/ mark_update_lock(t) \/ mark_update(t)
          \/ loop_after_lock(t) \/ loop_after_read(t)
          \/ loop_sleep(t) \/ loop_idle_sleep(t)

Spec == Init /\ [][Next]_vars

\* where a thread is inside a `with self._lock` body that reads or writes
\* active_installable
LockedSections ==
    {"activate_body", "deactivate_body", "status_body",
     "update_board_read", "loop_read", "loop_after_read"}

\* the steps of the loop thread between two ticks, and the bodies that hold
\* the lock
LoopStep(t) ==
    \/ loop_top(t) \/ loop_read_lock(t) \/ loop_read(t)
    \/ loop_after_lock(t) \/ loop_after_read(t)
    \/ loop_sleep(t) \/ loop_idle_sleep(t)

LockedStep(t) ==
    set_active_installable(t) \/ deactivate_installable(t) \/ get_installable_status(t)

\* the program with its threads scheduled: the loop thread is a running
\* thread that takes its next step when it can, and a `with self._lock` body
\* runs to its end
SpecLive ==
    /\ Init /\ [][Next]_vars
    /\ \A t \in LoopThreads : WF_vars(LoopStep(t))
    /\ \A t \in ApiThreads : WF_vars(LockedStep(t))

\* the same program with installables whose should_update may decline, as the
\* BaseInstallable contract allows
InitContract == InitProgram("contract")

SpecContract == InitContract /\ [][Next]_vars

-----------------------------------------------------------------------------
(* Device.update_message on its own: any Device dimensions, any caller's board *)

\* the dimensions a Device can be constructed with
DeviceRows == {6, 8}
DeviceColumns == {22, 24}

\* the boards a caller can hand to update_message: too few, exactly enough and
\* too many rows, with lines that are too short, exact and too long
InputBoards ==
    { Board(n, len, [i \in 1..n |-> Row(i - 1, len, "left", Repeat(1, len))])
      : n \in {3, 6, 7}, len \in {5, 22, 25} }

\* a caller invokes Device.update_message(new_board)
update_message_call(t) ==
    /\ pc[t] = "idle"
    /\ requests < MaxRequests /\ requests' = requests + 1
    /\ \E new_board \in InputBoards :
          loc' = [loc EXCEPT ![t] = [NoCall EXCEPT !.op = "update_message",
                                                   !.caller = "caller",
                                                   !.board = new_board]]
    /\ pc' = [pc EXCEPT ![t] = "update_message"]
    /\ UNCHANGED <<rows, columns, active_board, api_key_set, display, active_installable,
                   last_update_time, running, lock, next_refresh_increment, schedule,
                   current_game_index, spotify_client, variants, rounds>>

\* update_message returns to that caller, or its exception reaches the caller
update_message_return(t) ==
    /\ pc[t] \in {"update_message_returned", "update_message_raised"}
    /\ loc[t].caller = "caller"
    /\ loc' = [loc EXCEPT ![t].ret =
                  IF pc[t] = "update_message_returned" THEN None ELSE "raises",
                          ![t].caller = None]
    /\ pc' = [pc EXCEPT ![t] = "idle"]
    /\ UNCHANGED <<rows, columns, active_board, api_key_set, display, active_installable,
                   last_update_time, running, lock, next_refresh_increment, schedule,
                   current_game_index, spotify_client, variants, requests, rounds>>

\* a caller invokes Device.get_board()
get_board_call(t) ==
    /\ pc[t] = "idle"
    /\ requests < MaxRequests /\ requests' = requests + 1
    /\ loc' = [loc EXCEPT ![t] = [NoCall EXCEPT !.op = "get_board",
                                                !.caller = "caller",
                                                !.board = active_board]]
    /\ pc' = [pc EXCEPT ![t] = "get_board"]
    /\ UNCHANGED <<rows, columns, active_board, api_key_set, display, active_installable,
                   last_update_time, running, lock, next_refresh_increment, schedule,
                   current_game_index, spotify_client, variants, rounds>>

\* get_board returns to that caller, or its exception reaches the caller
get_board_return(t) ==
    /\ pc[t] \in {"get_board_returned", "get_board_raised"}
    /\ loc[t].caller = "caller"
    /\ loc' = [loc EXCEPT ![t].ret =
                  IF pc[t] = "get_board_returned" THEN None ELSE "raises",
                          ![t].caller = None]
    /\ pc' = [pc EXCEPT ![t] = "idle"]
    /\ UNCHANGED <<rows, columns, active_board, api_key_set, display, active_installable,
                   last_update_time, running, lock, next_refresh_increment, schedule,
                   current_game_index, spotify_client, variants, requests, rounds>>

\* a Device of any of the dimensions, constructed as in InitProgram, with no
\* Orchestrator around it
InitDevice ==
    /\ rows \in DeviceRows /\ columns \in DeviceColumns
    /\ api_key_set \in BOOLEAN
    /\ display = InitialDisplay
    /\ active_board \in (IF api_key_set THEN {NoBoard, board_from_layout(InitialDisplay)}
                         ELSE {NoBoard})
    /\ active_installable = None
    /\ last_update_time = 0
    /\ running = FALSE
    /\ lock = None
    /\ next_refresh_increment = [n \in InstallableNames |-> 0]
    /\ schedule = <<>>
    /\ current_game_index = 0
    /\ spotify_client = FALSE
    /\ variants = "device"
    /\ requests = 0
    /\ rounds = 0
    /\ pc = [t \in Threads |-> IF t \in LoopThreads THEN "not_started" ELSE "idle"]
    /\ loc = [t \in Threads |-> NoCall]

NextDevice ==
    \E t \in ApiThreads :
       \/ update_message_call(t)
       \/ update_message_prepare(t) \/ remote_post(t) \/ update_message_response(t)
       \/ update_message_return(t)
       \/ get_board_call(t)
       \/ get_board_prepare(t) \/ remote_get(t) \/ get_board_response(t)
       \/ get_board_return(t)

SpecDevice == InitDevice /\ [][NextDevice]_vars

-----------------------------------------------------------------------------
(* Row.pad_line and Device.create_row called on their own: vestaboard/models.py *)

\* the lines and the lengths a caller hands over
MaxLineLen == 4
RowAligns == {"left", "center", "right", "none"}
RowLines == UNION {[1..n -> {0, 5}] : n \in 0..MaxLineLen}
RowLengths == 0..(MaxLineLen - 1)

\* a caller constructs a Row of any length, line and align
new_row(t) ==
    /\ pc[t] = "idle"
    /\ loc[t].op = None
    /\ \E length \in RowLengths, line \in RowLines, align \in RowAligns :
          loc' = [loc EXCEPT ![t] = [NoCall EXCEPT !.op = "Row",
                                         !.row = Row(0, length, align, line)]]
    /\ pc' = pc
    /\ UNCHANGED <<rows, columns, active_board, api_key_set, display, active_installable,
                   last_update_time, running, lock, next_refresh_increment, schedule,
                   current_game_index, spotify_client, variants, requests, rounds>>

\* tokens that are no alignment; Row(...) refuses them, an assignment to
\* row.align does not
OtherAligns == {"justify"}

\* the caller assigns another token to the align of the Row it has built
set_align(t) ==
    /\ pc[t] = "idle"
    /\ loc[t].op = "Row" /\ loc[t].row.align \in RowAligns
    /\ \E align \in OtherAligns : loc' = [loc EXCEPT ![t].row.align = align]
    /\ pc' = pc
    /\ UNCHANGED <<rows, columns, active_board, api_key_set, display, active_installable,
                   last_update_time, running, lock, next_refresh_increment, schedule,
                   current_game_index, spotify_client, variants, requests, rounds>>

\* the caller invokes pad_line on the Row it holds: the call returns, raises
\* ValueError, or (short line, align "none") never leaves its loop
pad_line_call(t) ==
    /\ pc[t] = "idle"
    /\ loc[t].row # NoRow
    /\ IF pad_line_returns(loc[t].row)
       THEN /\ loc' = [loc EXCEPT ![t].op = "pad_line",
                                  ![t].given_row = loc[t].row,
                                  ![t].row = pad_line(loc[t].row)]
            /\ pc' = pc
       ELSE /\ loc' = [loc EXCEPT ![t].op = "pad_line", ![t].given_row = loc[t].row]
            /\ pc' = [pc EXCEPT ![t] = IF pad_line_raises(loc[t].row)
                                       THEN "pad_line_raised" ELSE "pad_line_looping"]
    /\ UNCHANGED <<rows, columns, active_board, api_key_set, display, active_installable,
                   last_update_time, running, lock, next_refresh_increment, schedule,
                   current_game_index, spotify_client, variants, requests, rounds>>

\* the caller invokes Device.create_row(index, line, align); given_row records
\* the Row as built before its pad_line call
create_row_call(t) ==
    /\ pc[t] = "idle"
    /\ loc[t].op = None
    /\ \E line \in RowLines, align \in RowAligns :
          LET row == Row(0, columns, align, line) IN
          IF pad_line_returns(row)
          THEN /\ loc' = [loc EXCEPT ![t] = [NoCall EXCEPT !.op = "create_row",
                                                 !.given_row = row,
                                                 !.row = create_row(0, line, align)]]
               /\ pc' = pc
          ELSE /\ loc' = [loc EXCEPT ![t] = [NoCall EXCEPT !.op = "create_row",
                                                 !.given_row = row]]
               /\ pc' = [pc EXCEPT ![t] = "pad_line_looping"]
    /\ UNCHANGED <<rows, columns, active_board, api_key_set, display, active_installable,
                   last_update_time, running, lock, next_refresh_increment, schedule,
                   current_game_index, spotify_client, variants, requests, rounds>>

\* a Device narrower than the longest line, and a caller that holds no Row yet
InitRow ==
    /\ rows = VESTABOARD_ROWS /\ columns \in RowLengths
    /\ api_key_set = FALSE
    /\ display = InitialDisplay
    /\ active_board = NoBoard
    /\ active_installable = None
    /\ last_update_time = 0
    /\ running = FALSE
    /\ lock = None
    /\ next_refresh_increment = [n \in InstallableNames |-> 0]
    /\ schedule = <<>>
    /\ current_game_index = 0
    /\ spotify_client = FALSE
    /\ variants = "device"
    /\ requests = 0
    /\ rounds = 0
    /\ pc = [t \in Threads |-> IF t \in LoopThreads THEN "not_started" ELSE "idle"]
    /\ loc = [t \in Threads |-> NoCall]

NextRow ==
    \E t \in ApiThreads :
       new_row(t) \/ set_align(t) \/ pad_line_call(t) \/ create_row_call(t)

SpecRow == InitRow /\ [][NextRow]_vars

-----------------------------------------------------------------------------
(* Board.pad_message and Device.create_board called on their own:
   vestaboard/models.py *)

\* the heights of the Devices and Boards tried
MaxBoardRows == 3
BoardColumns == {2, 3}

\* the Rows a caller puts in a message: one of the Board's width, one declared
\* a column longer
MessageRows == { Row(0, columns, "left", Repeat(5, columns)),
                 Row(1, columns + 1, "left", Repeat(5, columns)) }

\* row lists of up to one more than the Device's rows
Messages == UNION {[1..n -> MessageRows] : n \in 0..(rows + 1)}

\* a caller builds a Board of the Device's dimensions with some rows and calls
\* its pad_message
pad_message_call(t) ==
    /\ pc[t] = "idle"
    /\ loc[t].op = None
    /\ \E message \in Messages :
          LET board == Board(rows, columns, message)
          IN  loc' = [loc EXCEPT ![t] = [NoCall EXCEPT !.op = "pad_message",
                                             !.given_board = board,
                                             !.board = pad_message(board)]]
    /\ pc' = pc
    /\ UNCHANGED <<rows, columns, active_board, api_key_set, display, active_installable,
                   last_update_time, running, lock, next_refresh_increment, schedule,
                   current_game_index, spotify_client, variants, requests, rounds>>

\* a caller invokes Device.create_board, without a message (None becomes [])
\* or with one
create_board_call(t) ==
    /\ pc[t] = "idle"
    /\ loc[t].op = None
    /\ \E given \in BOOLEAN, message \in Messages :
          loc' = [loc EXCEPT ![t] = [NoCall EXCEPT !.op = "create_board",
                        !.arg = IF given THEN "message" ELSE None,
                        !.board = create_board(IF given THEN message ELSE <<>>)]]
    /\ pc' = pc
    /\ UNCHANGED <<rows, columns, active_board, api_key_set, display, active_installable,
                   last_update_time, running, lock, next_refresh_increment, schedule,
                   current_game_index, spotify_client, variants, requests, rounds>>

\* a Device of a few rows and columns, nothing else going on
InitBoard ==
    /\ rows \in 1..MaxBoardRows /\ columns \in BoardColumns
    /\ api_key_set = FALSE
    /\ display = InitialDisplay
    /\ active_board = NoBoard
    /\ active_installable = None
    /\ last_update_time = 0
    /\ running = FALSE
    /\ lock = None
    /\ next_refresh_increment = [n \in InstallableNames |-> 0]
    /\ schedule = <<>>
    /\ current_game_index = 0
    /\ spotify_client = FALSE
    /\ variants = "device"
    /\ requests = 0
    /\ rounds = 0
    /\ pc = [t \in Threads |-> IF t \in LoopThreads THEN "not_started" ELSE "idle"]
    /\ loc = [t \in Threads |-> NoCall]

NextBoard ==
    \E t \in ApiThreads : pad_message_call(t) \/ create_board_call(t)

SpecBoard == InitBoard /\ [][NextBoard]_vars

-----------------------------------------------------------------------------
(* convert_to_character_code and convert_from_character_code called on their
   own: vestaboard/utils.py *)

\* the longest token list tried
MaxTokens == 2

\* tokens a caller hands over: those of the table, lower-case letters and
\* colour names, empty and white tokens, and symbols the table does not hold
Tokens ==
    DOMAIN CharactersCode \cup DOMAIN UpperOf \cup BlankTokens \cup {"~", "ab", "BLOCK"}

TokenLists == UNION {[1..n -> Tokens] : n \in 0..MaxTokens}

\* the codes of the table, 43 and 45 that it skips, and the first code past it
Codes == 0..(int(CharactersCode["FILLED"]) + 1)

\* a caller encodes a list of tokens and decodes the codes again
encode_decode_call(t) ==
    /\ pc[t] = "idle"
    /\ loc[t].op = None
    /\ \E input \in TokenLists :
          LET line == convert_to_character_code(input)
          IN  loc' = [loc EXCEPT ![t] = [NoCall EXCEPT !.op = "encode_decode",
                                             !.tokens = input,
                                             !.codes = line,
                                             !.text = convert_from_character_code(line)]]
    /\ pc' = pc
    /\ UNCHANGED <<rows, columns, active_board, api_key_set, display, active_installable,
                   last_update_time, running, lock, next_refresh_increment, schedule,
                   current_game_index, spotify_client, variants, requests, rounds>>

\* a caller decodes one code and encodes the token again
decode_encode_call(t) ==
    /\ pc[t] = "idle"
    /\ loc[t].op = None
    /\ \E code \in Codes :
          LET chars == convert_from_character_code(<<code>>)
          IN  loc' = [loc EXCEPT ![t] = [NoCall EXCEPT !.op = "decode_encode",
                                             !.codes = <<code>>,
                                             !.text = chars,
                                             !.data = convert_to_character_code(chars)]]
    /\ pc' = pc
    /\ UNCHANGED <<rows, columns, active_board, api_key_set, display, active_installable,
                   last_update_time, running, lock, next_refresh_increment, schedule,
                   current_game_index, spotify_client, variants, requests, rounds>>

\* a caller decodes a list of codes, some of them outside the table, both ways
decode_call(t) ==
    /\ pc[t] = "idle"
    /\ loc[t].op = None
    /\ \E n \in 0..MaxTokens :
          \E input \in [1..n -> Codes \cup {-1}] :
             loc' = [loc EXCEPT ![t] = [NoCall EXCEPT !.op = "decode",
                                            !.codes = input,
                                            !.text = convert_from_character_code(input),
                                            !.chars = convert_from_character_code_with_colors(input)]]
    /\ pc' = pc
    /\ UNCHANGED <<rows, columns, active_board, api_key_set, display, active_installable,
                   last_update_time, running, lock, next_refresh_increment, schedule,
                   current_game_index, spotify_client, variants, requests, rounds>>

\* the program as constructed without the credential, nothing else going on
InitPure == InitProgram("registered") /\ ~api_key_set

NextCodec ==
    \E t \in ApiThreads :
       encode_decode_call(t) \/ decode_encode_call(t) \/ decode_call(t)

SpecCodec == InitPure /\ [][NextCodec]_vars

-----------------------------------------------------------------------------
(* MLBScoresInstallable.game_prioritizer called on its own:
   installables/sports/mlb/app.py *)

\* the longest schedule tried
MaxGames == 3

\* two teams of TEAM_PRIORITY (the first and the third) and two outside it
ScheduleTeams == {111, 147, 112, 119}

\* start times, as numbers that order as the ISO strings do
StartTimes == {1, 2}

\* the games of a day: two different teams and a start time
Fixtures ==
    {f \in [home : ScheduleTeams, away : ScheduleTeams, datetime : StartTimes] :
        f.home # f.away}

\* a caller has a schedule prioritized; the schedule is as get_schedule builds
\* it, gameId being the place in the day's list
game_prioritizer_call(t) ==
    /\ pc[t] = "idle"
    /\ loc[t].op = None
    /\ \E n \in 0..MaxGames :
          \E day \in [1..n -> Fixtures] :
             LET games == [i \in 1..n |->
                              Game(i, day[i].home, day[i].away, day[i].datetime)]
             IN  loc' = [loc EXCEPT ![t] = [NoCall EXCEPT !.op = "game_prioritizer",
                                               !.given_schedule = games,
                                               !.prioritized_schedule = game_prioritizer(games)]]
    /\ pc' = pc
    /\ UNCHANGED <<rows, columns, active_board, api_key_set, display, active_installable,
                   last_update_time, running, lock, next_refresh_increment, schedule,
                   current_game_index, spotify_client, variants, requests, rounds>>

NextPrioritizer == \E t \in ApiThreads : game_prioritizer_call(t)

SpecPrioritizer == InitPure /\ [][NextPrioritizer]_vars

-----------------------------------------------------------------------------
(* ClockInstallable.generate_board called on its own: installables/clock.py *)

\* the seconds of a minute
Seconds == 0..59

\* time.strftime("%S") and the like: a number below 100 as two digits
strftime(n) == <<DigitChar[(n \div 10) + 1], DigitChar[(n % 10) + 1]>>

\* the clock draws its board at one of the readings, at any second of the minute
clock_generate_board_call(t) ==
    /\ pc[t] = "idle"
    /\ loc[t].op = None
    /\ \E tm \in ClockTimes, s \in Seconds :
          LET r == clock_generate_board([tm EXCEPT !.sec = strftime(s)])
          IN  loc' = [loc EXCEPT ![t] = [NoCall EXCEPT !.op = "clock_generate_board",
                                            !.second = s,
                                            !.board = r.board,
                                            !.refresh = r.refresh]]
    /\ pc' = pc
    /\ UNCHANGED <<rows, columns, active_board, api_key_set, display, active_installable,
                   last_update_time, running, lock, next_refresh_increment, schedule,
                   current_game_index, spotify_client, variants, requests, rounds>>

NextClock == \E t \in ApiThreads : clock_generate_board_call(t)

SpecClock == InitPure /\ [][NextClock]_vars

-----------------------------------------------------------------------------
(* the description lines of MLBScoresInstallable.get_live_game_feed on their
   own: installables/sports/mlb/app.py *)

\* the most words a description is given
MaxWords == 4

\* words of three, ten and twelve letters
PlayWords ==
    { [i \in 1..3 |-> "a"], [i \in 1..10 |-> "b"], [i \in 1..12 |-> "c"] }

\* " ".join(words)
RECURSIVE join_words(_)
join_words(words) ==
    IF words = <<>> THEN <<>>
    ELSE IF Len(words) = 1 THEN Head(words)
    ELSE Head(words) \o <<" ">> \o join_words(Tail(words))

\* the feed of a game whose last play is described by some words
description_lines_call(t) ==
    /\ pc[t] = "idle"
    /\ loc[t].op = None
    /\ \E n \in 0..MaxWords :
          \E words \in [1..n -> PlayWords] :
             loc' = [loc EXCEPT ![t] = [NoCall EXCEPT !.op = "description_lines",
                                            !.text = join_words(words),
                                            !.lines = description_lines(join_words(words))]]
    /\ pc' = pc
    /\ UNCHANGED <<rows, columns, active_board, api_key_set, display, active_installable,
                   last_update_time, running, lock, next_refresh_increment, schedule,
                   current_game_index, spotify_client, variants, requests, rounds>>

NextWrap == \E t \in ApiThreads : description_lines_call(t)

SpecWrap == InitPure /\ [][NextWrap]_vars

-----------------------------------------------------------------------------
(* start_background_task and stop_background_task called again and again by
   one caller of the Orchestrator: orchestrator.py *)

\* the threads of a program in which the background task is started twice
Workers == Threads \cup {LoopPool[i] : i \in 1..Len(LoopPool)}

\* stop_background_task has returned and its caller goes on
stop_returned(t) ==
    /\ pc[t] = "stopped"
    /\ pc' = [pc EXCEPT ![t] = "idle"]
    /\ loc' = [loc EXCEPT ![t].op = None]
    /\ UNCHANGED <<rows, columns, active_board, api_key_set, display, active_installable,
                   last_update_time, running, lock, next_refresh_increment, schedule,
                   current_game_index, spotify_client, variants, requests, rounds>>

\* the program run without the credential: every send raises in
\* update_message before anything is posted
InitRestart ==
    /\ rows = 6 /\ columns = 22
    /\ api_key_set = FALSE
    /\ display = InitialDisplay
    /\ active_board = NoBoard
    /\ active_installable = None
    /\ last_update_time = 0
    /\ running = FALSE
    /\ lock = None
    /\ next_refresh_increment = [n \in InstallableNames |-> 0]
    /\ schedule = <<>>
    /\ current_game_index = 0
    /\ spotify_client = FALSE
    /\ variants = "registered"
    /\ requests = 0
    /\ rounds = 0
    /\ pc = [t \in Workers |-> IF t \in ApiThreads THEN "idle" ELSE "not_started"]
    /\ loc = [t \in Workers |-> NoCall]

NextRestart ==
    \/ \E t \in ApiThreads :
          \/ (ActivateCall(t) /\ loc'[t].arg = "clock") \/ set_active_installable(t)
          \/ start_background_task(t)
          \/ stop_background_task(t) \/ join_return(t) \/ stop_returned(t)
    \/ \E t \in Workers \ ApiThreads :
          \/ loop_top(t) \/ loop_read_lock(t) \/ loop_read(t)
          \/ update_board_lock(t) \/ update_board_read(t) \/ update_board_gate(t)
          \/ generate_board(t) \/ installable_update_board_return(t)
          \/ update_message_prepare(t)
          \/ loop_after_lock(t) \/ loop_after_read(t)
          \/ loop_sleep(t) \/ loop_idle_sleep(t)

SpecRestart == InitRestart /\ [][NextRestart]_vars

-----------------------------------------------------------------------------
(* Properties *)

\* the grid of codes a board holds, row by row
lines(board) == [i \in 1..Len(board.message) |-> board.message[i].line]

\* C1: set_active_installable with a name that is not in the registry returns
\* False and leaves active_installable exactly as it was, whatever was active
\* and whatever came before.
C1_UnknownNameIsRefused ==
    [][\A t \in ApiThreads :
          (pc[t] = "activate_body" /\ loc[t].arg \notin InstallableNames /\ pc'[t] # pc[t])
          => /\ pc'[t] = "idle"
             /\ loc'[t].ret = False
             /\ active_installable' = active_installable]_vars

\* an unknown name has been refused while an installable was active
C1_Witness ==
    \E t \in ApiThreads :
       /\ pc[t] = "idle" /\ loc[t].op = "activate" /\ loc[t].arg = "unknown"
       /\ loc[t].ret = False
       /\ active_installable = "clock"

\* C2: set_active_installable with a registered name returns True and leaves
\* active_installable equal to that name; when the name was already the active
\* one it returns True and the state of the orchestrator and of what it drives
\* is as before.
C2_ActivationSwitchesAndIsIdempotent ==
    [][\A t \in ApiThreads :
          (pc[t] = "activate_body" /\ loc[t].arg \in InstallableNames /\ pc'[t] # pc[t])
          => /\ pc'[t] = "idle"
             /\ loc'[t].ret = True
             /\ active_installable' = loc[t].arg
             /\ (active_installable = loc[t].arg
                   => UNCHANGED <<active_installable, last_update_time, running,
                                  next_refresh_increment, schedule, current_game_index,
                                  spotify_client, active_board, display>>)]_vars

\* the active installable has been activated again
C2_Witness ==
    \E t \in ApiThreads :
       /\ pc[t] = "idle" /\ loc[t].op = "activate" /\ loc[t].ret = True
       /\ loc[t].arg = "mlb" /\ loc[t].previous_installable = "mlb"
       /\ active_installable = "mlb"

\* C3: deactivate_installable returns False and changes nothing when nothing is
\* active, and otherwise sets active_installable to None and returns True; in
\* both cases the call leaves Device.active_board as it was and sends nothing
\* to the display.
C3_DeactivateLeavesBoard ==
    [][\A t \in ApiThreads :
          (pc[t] = "deactivate_body" /\ pc'[t] # pc[t])
          => /\ pc'[t] = "idle"
             /\ active_installable' = None
             /\ loc'[t].ret = (IF active_installable = None THEN False ELSE True)
             /\ (active_installable = None
                   => UNCHANGED <<active_installable, last_update_time, running,
                                  next_refresh_increment, schedule, current_game_index,
                                  spotify_client>>)
             /\ UNCHANGED <<active_board, display, rows, columns>>]_vars

\* an installable has been deactivated while the Device held a board
C3_Witness ==
    \E t \in ApiThreads :
       /\ pc[t] = "idle" /\ loc[t].op = "deactivate" /\ loc[t].ret = True
       /\ loc[t].previous_installable \in InstallableNames
       /\ active_installable = None
       /\ active_board # NoBoard

\* C4: update_board called while nothing is active returns False without
\* calling the installable or the Device and without changing the state of the
\* orchestrator, the installables or the Device.
C4_TickWithNothingActive ==
    [][\A t \in LoopThreads :
          (pc[t] = "update_board_read" /\ active_installable = None /\ pc'[t] # pc[t])
          => /\ pc'[t] = "update_board_done"
             /\ loc'[t].ret = False
             /\ loc'[t].gate = None /\ loc'[t].board = NoBoard /\ loc'[t].data = <<>>
             /\ UNCHANGED <<active_installable, last_update_time, running,
                            next_refresh_increment, schedule, current_game_index,
                            spotify_client, active_board, display, rows, columns>>]_vars

\* a tick found nothing active: the installable was deactivated after the loop
\* had read its name
C4_Witness ==
    \E t \in LoopThreads :
       /\ pc[t] = "update_board_done" /\ loc[t].op = "update_board"
       /\ loc[t].installable_name = None /\ loc[t].ret = False
       /\ active_installable = None

C6_NoLockAcrossInstallableOrDevice ==
    \A t \in Threads :
       pc[t] \in {"should_update", "generate_board", "update_message", "posting",
                  "response", "update_message_returned", "update_message_raised"}
       => lock # t

\* a control call holds the lock while the tick's POST is outstanding
C6_Witness ==
    \E t \in LoopThreads, a \in ApiThreads :
       /\ pc[t] = "posting"
       /\ lock = a /\ pc[a] \in {"activate_body", "deactivate_body"}

\* C7: a Device.update_message that fails (status other than 200, transport
\* exception, missing credential) ends in an exception and leaves active_board
\* as it was: of all steps of update_message only the one that handles a 200
\* answer changes active_board (the other writer is get_board).
C7_FailedSendKeepsBoard ==
    [][(\A t \in Threads :
           (pc[t] \in {"update_message", "posting", "response"} /\ pc'[t] # pc[t]
              /\ pc'[t] # "update_message_returned")
           => /\ active_board' = active_board
              /\ (pc[t] = "update_message" /\ ~api_key_set
                    => pc'[t] = "update_message_raised")
              /\ (pc[t] = "response" => pc'[t] = "update_message_raised"))
       /\ (\A t \in Threads :
              (pc[t] = "response" /\ pc'[t] = "update_message_returned")
              => loc[t].status = "200")
       /\ (active_board' # active_board
              => \E t \in Threads :
                    \/ pc[t] = "response" /\ pc'[t] = "update_message_returned"
                    \/ pc[t] = "get_response" /\ pc'[t] = "get_board_returned")]_vars

\* a send has been refused by the display while the Device held a board
C7_Witness ==
    \E t \in Threads :
       /\ pc[t] = "update_message_raised" /\ loc[t].status \in {"500", "raises"}
       /\ active_board # NoBoard

\* C8 as the specification states it: after a successful update_message the
\* Device's active_board has exactly Device.rows rows of exactly Device.columns
\* codes each and is the grid that was sent.
C8_ActiveBoardIsSentGrid ==
    [][\A t \in Threads :
          (pc[t] = "response" /\ pc'[t] = "update_message_returned")
          => /\ Len(active_board'.message) = rows
             /\ \A i \in 1..Len(active_board'.message) :
                   Len(active_board'.message[i].line) = columns
             /\ lines(active_board') = loc[t].data]_vars

\* C9 as the specification states it: whatever the Device's dimensions and the
\* caller's board, the grid that is sent has Device.rows rows of Device.columns
\* integer codes.
C9_SentGridHasDeviceDimensions ==
    \A t \in Threads :
       pc[t] = "posting"
       => /\ Len(loc[t].data) = rows
          /\ \A i \in 1..Len(loc[t].data) :
                /\ Len(loc[t].data[i]) = columns
                /\ \A j \in 1..Len(loc[t].data[i]) : loc[t].data[i][j] \in Nat

\* C10 as the specification states it: no step of a tick that hit a transient
\* failure changes what the display shows or what the Device holds as
\* active_board.
C10_StaleContentOnFailure ==
    [][\A t \in LoopThreads :
          (loc[t].fault /\ pc'[t] # pc[t])
          => (display' = display /\ active_board' = active_board)]_vars


\* C11 as the specification states it: in every state of the loop, with an
\* installable active or not, no single sleep of the loop is longer than one
\* second, so that a stop request is seen within one slice.
C11_NoSleepLongerThanASlice ==
    \A t \in LoopThreads : loc[t].slice_ms <= SLEEP_SLICE_MS

\* C12 as the specification states it: the time the loop sleeps after a tick
\* whose generate_board returned is the refresh delay that call returned,
\* whether the send succeeded or not.
C12_SleepIsTheTicksRefreshDelay ==
    [][\A t \in LoopThreads :
          (pc[t] = "loop_after_read" /\ pc'[t] = "sleep" /\ loc[t].refresh > 0)
          => loc'[t].sleep_ms = loc[t].refresh]_vars

\* C13 as the specification states it: the loop enters Device.update_message
\* only while an installable is active, also when its tick had read the name
\* before a deactivation returned.
C13_NoSendAfterDeactivation ==
    [][\A t \in LoopThreads :
          (pc[t] = "update_message" /\ pc'[t] # pc[t]) => active_installable # None]_vars


\* C14: a failing tick never ends the loop. The step in which generate_board
\* raises or the Device call has failed (refused, transport error, missing
\* credential) returns False to the loop and leaves the running flag alone,
\* the loop thread ends only once the flag is cleared, and after a failed tick
\* the loop comes to a further tick unless meanwhile nothing is active or a
\* stop is requested.
C14_FailedTickKeepsLoopAlive ==
    /\ [][\A t \in LoopThreads :
             /\ ((pc[t] \in {"generate_board", "update_message_raised"} /\ pc'[t] # pc[t]
                    /\ pc'[t] # "update_message")
                 => (pc'[t] = "update_board_done" /\ loc'[t].ret = False
                       /\ running' = running))
             /\ ((pc[t] \in {"update_message", "response"} /\ pc'[t] # pc[t])
                 => (pc'[t] \in {"posting", "update_message_raised",
                                 "update_message_returned"}
                       /\ running' = running))
             /\ (pc'[t] = "exited" /\ pc[t] # "exited"
                 => (pc[t] = "loop_top" /\ ~running))]_vars
    /\ \A t \in LoopThreads :
          (pc[t] = "update_board_done" /\ loc[t].ret = False /\ rounds < MaxRounds)
          ~> (pc[t] = "update_board" \/ active_installable = None \/ ~running)

\* the loop is in a further tick after one whose send failed for want of the
\* credential, with the flag still set
C14_Witness ==
    \E t \in LoopThreads :
       /\ pc[t] = "generate_board" /\ rounds = 2 /\ running
       /\ ~api_key_set /\ last_update_time = 0
       /\ \A a \in ApiThreads : loc[a].op = "start"


\* C15 as the specification states it: when get_board has met a transport
\* error (the GET raised, the display answered with a status other than 200,
\* the credential is missing), active_board is None, whatever it held before.
C15_TransportErrorClearsBoard ==
    \A t \in ApiThreads :
       (pc[t] = "get_board_returned"
          /\ loc[t].payload.kind \in {"no_credential", "raises", "status"})
       => active_board = NoBoard

\* C16 as the specification states it: when the display answered 200 with a
\* currentMessage that is null or of another type, or with a layout that is
\* missing, no list or an unparseable string, active_board is the all-blank
\* board of Device.rows rows of Device.columns codes.
C16_MalformedPayloadGivesBlankBoard ==
    \A t \in ApiThreads :
       (pc[t] = "get_board_returned"
          /\ (\/ loc[t].payload.kind \in {"null", "string"}
              \/ /\ loc[t].payload.kind = "message"
                 /\ loc[t].payload.layout.kind \in {"missing", "bad_string", "number"}))
       => active_board = blank_board

\* C17: get_board never passes an error on: whatever the transport did and
\* whatever the payload held, the call ends by returning, never by raising.
C17_GetBoardReturnsNormally ==
    \A t \in ApiThreads :
       /\ pc[t] # "get_board_raised"
       /\ (pc[t] = "idle" /\ loc[t].op = "get_board") => loc[t].ret = None

\* a get_board call has returned to its caller after each of: a transport
\* exception, a body that is no JSON, a currentMessage of another type
C17_Witness ==
    \E t \in ApiThreads :
       /\ pc[t] = "idle" /\ loc[t].op = "get_board" /\ loc[t].ret = None
       /\ loc[t].payload.kind \in {"raises", "not_json", "string"}
       /\ active_board # NoBoard

\* C18: the handler that reads active_board while the loop sends returns the
\* grid of one whole board, the one active_board holds at the instant of its
\* read; and active_board changes only by one step of one writer that puts a
\* whole board in its place (the sender's board, or the board get_board built).
C18_ReaderSeesAWholeBoard ==
    [][(\A t \in ApiThreads :
           (pc[t] = "read_board" /\ pc'[t] # pc[t])
           => (loc'[t].ret = "200" /\ loc'[t].grid = grid_codes(active_board)
                 /\ active_board' = active_board))
       /\ (active_board' # active_board
             => \E t \in Threads :
                   \/ pc[t] = "response" /\ active_board' = loc[t].board
                   \/ pc[t] = "get_response"
                        /\ active_board' = get_board_result(loc[t].payload, active_board))]_vars

\* the handler has answered with the grid of the board the Device holds while
\* the loop is inside Device.update_message with another board
C18_Witness ==
    \E t \in ApiThreads, l \in LoopThreads :
       /\ pc[t] = "idle" /\ loc[t].op = "get_current_board" /\ loc[t].ret = "200"
       /\ active_board # NoBoard /\ loc[t].grid = grid_codes(active_board)
       /\ pc[l] \in {"posting", "response"} /\ loc[l].board # active_board

\* C19: get_installable_status answers with one entry per registered name,
\* "active" for exactly the name that is active_installable and "inactive" for
\* the others, so at most one entry is "active".
C19_StatusMatchesActiveInstallable ==
    \A t \in ApiThreads :
       (pc[t] = "idle" /\ loc[t].op = "status")
       => /\ DOMAIN loc[t].statuses = InstallableNames
          /\ \A n \in InstallableNames :
                loc[t].statuses[n] = IF n = active_installable THEN "active" ELSE "inactive"
          /\ Cardinality({n \in InstallableNames : loc[t].statuses[n] = "active"}) <= 1

\* the status has been taken while an installable is active
C19_Witness ==
    \E t \in ApiThreads :
       /\ pc[t] = "idle" /\ loc[t].op = "status"
       /\ active_installable \in InstallableNames
       /\ loc[t].statuses[active_installable] = "active"


\* C20: for a Row whose align is left, right or center and whose line is not
\* longer than its length, the line has exactly that length after pad_line,
\* and after create_row, and a further pad_line leaves the Row as it is.
C20_PadLineFillsAndIsIdempotent ==
    \A t \in ApiThreads :
       (pc[t] = "idle" /\ loc[t].op \in {"pad_line", "create_row"}
          /\ loc[t].given_row.align \in {"left", "right", "center"}
          /\ Len(loc[t].given_row.line) <= loc[t].given_row.length)
       => /\ Len(loc[t].row.line) = loc[t].given_row.length
          /\ loc[t].row.length = loc[t].given_row.length
          /\ pad_line(loc[t].row) = loc[t].row

\* create_row has padded a centered line that was two codes short
C20_Witness ==
    \E t \in ApiThreads :
       /\ pc[t] = "idle" /\ loc[t].op = "create_row"
       /\ loc[t].given_row.align = "center"
       /\ Len(loc[t].given_row.line) + 2 = loc[t].given_row.length
       /\ Len(loc[t].row.line) = columns


\* C24 as the specification states it: pad_line on a Row whose align is none
\* of left, center, right, none ends in an error, whatever the Row's line.
C24_UnknownAlignFails ==
    \A t \in ApiThreads :
       (loc[t].op = "pad_line" /\ loc[t].given_row.align \in OtherAligns)
       => pc[t] = "pad_line_raised"

\* C29 as the specification states it: pad_line returns for every align and
\* every length of the line; with align none, and with a line longer than the
\* length, it returns the Row as it was.
C29_PadLineTerminates ==
    \A t \in ApiThreads :
       /\ pc[t] # "pad_line_looping"
       /\ (pc[t] = "idle" /\ loc[t].op = "pad_line"
             /\ (loc[t].given_row.align = "none"
                   \/ Len(loc[t].given_row.line) > loc[t].given_row.length))
          => loc[t].row = loc[t].given_row

\* the ways to read the Row that the last pad_line call of thread t returned
\* as lead blanks, the codes the Row held, trail blanks: pairs <<lead, trail>>
Paddings(t) ==
    LET given == loc[t].given_row.line
        line == loc[t].row.line
        deficit == Len(line) - Len(given)
    IN  { <<lead, deficit - lead>> : lead \in
             { l \in 0..deficit :
                  line = Repeat(0, l) \o given \o Repeat(0, deficit - l) } }

\* C30 as the specification states it: pad_line only adds blanks around the
\* codes, which stay contiguous and in order; left adds them after, right
\* before, and center on both sides with counts that differ by at most one,
\* the extra blank of an odd deficit being the trailing one.
C30_CenterIsLeftBiased ==
    \A t \in ApiThreads :
       (pc[t] = "idle" /\ loc[t].op = "pad_line"
          /\ loc[t].given_row.align \in {"left", "right", "center"})
       => \E p \in Paddings(t) :
             LET lead == p[1]
                 trail == p[2]
                 align == loc[t].given_row.align
             IN  /\ align = "left" => lead = 0
                 /\ align = "right" => trail = 0
                 /\ align = "center" =>
                       IF (lead + trail) % 2 = 1 THEN trail = lead + 1 ELSE lead = trail

\* C30, amended: as above, but the extra blank of an odd deficit is the
\* trailing one when the line started with an odd number of codes and the
\* leading one when it started with an even number.
C30_CenterBiasFollowsStartParity ==
    \A t \in ApiThreads :
       (pc[t] = "idle" /\ loc[t].op = "pad_line"
          /\ loc[t].given_row.align \in {"left", "right", "center"})
       => \E p \in Paddings(t) :
             LET lead == p[1]
                 trail == p[2]
                 align == loc[t].given_row.align
                 odd_start == Len(loc[t].given_row.line) % 2 = 1
             IN  /\ align = "left" => lead = 0
                 /\ align = "right" => trail = 0
                 /\ align = "center" =>
                       IF (lead + trail) % 2 = 0 THEN lead = trail
                       ELSE IF odd_start THEN trail = lead + 1 ELSE lead = trail + 1

\* pad_line has centered two codes in a Row of three: the blank leads
C30_Witness ==
    \E t \in ApiThreads :
       /\ pc[t] = "idle" /\ loc[t].op = "pad_line"
       /\ loc[t].given_row.align = "center"
       /\ loc[t].given_row.line = <<5, 5>>
       /\ loc[t].row.line = <<0, 5, 5>>


\* C21 as the specification states it: after pad_message the Board holds
\* exactly `rows` rows and every row's declared length is `columns`.
C21_PadMessageNormalizes ==
    \A t \in ApiThreads :
       loc[t].op = "pad_message"
       => /\ Len(loc[t].board.message) = loc[t].board.rows
          /\ \A i \in 1..Len(loc[t].board.message) :
                loc[t].board.message[i].length = loc[t].board.columns

\* C25 as the specification states it: create_board called without rows
\* returns a Board of the Device's rows and columns that holds Device.rows
\* rows of Device.columns blank codes.
C25_CreateBoardWithoutRowsIsBlank ==
    \A t \in ApiThreads :
       (loc[t].op = "create_board" /\ loc[t].arg = None)
       => /\ loc[t].board.rows = rows /\ loc[t].board.columns = columns
          /\ Len(loc[t].board.message) = rows
          /\ \A i \in 1..Len(loc[t].board.message) :
                loc[t].board.message[i].line = Repeat(0, columns)


\* C22: convert_to_character_code returns one code per token, in order: the
\* table's code of the upper-cased token when the table holds it, and the
\* blank code 0 otherwise (unknown, empty or white token); no position is lost.
C22_OneCodePerToken ==
    \A t \in ApiThreads :
       loc[t].op = "encode_decode"
       => /\ Len(loc[t].codes) = Len(loc[t].tokens)
          /\ \A i \in 1..Len(loc[t].tokens) :
                LET v == upper(loc[t].tokens[i])
                IN  loc[t].codes[i] = IF v \in DOMAIN CharactersCode
                                      THEN int(CharactersCode[v]) ELSE 0

\* a lower-case letter and an unknown symbol have been encoded
C22_Witness ==
    \E t \in ApiThreads :
       /\ loc[t].op = "encode_decode"
       /\ loc[t].tokens = <<"a", "~">> /\ loc[t].codes = <<1, 0>>

\* C23: decoding the codes of a token list gives a list of the same length
\* with the upper-cased glyph where the token is a glyph of the table (letter,
\* digit, punctuation, space) and a blank where the table does not know the
\* token; and for every code of a glyph, encoding the decoded token gives the
\* code again.
C23_GlyphsRoundTrip ==
    \A t \in ApiThreads :
       /\ loc[t].op = "encode_decode"
          => /\ Len(loc[t].text) = Len(loc[t].tokens)
             /\ \A i \in 1..Len(loc[t].tokens) :
                   LET v == upper(loc[t].tokens[i])
                   IN  /\ v \in DOMAIN CharactersCode \ ColorNames => loc[t].text[i] = v
                       /\ v \notin DOMAIN CharactersCode => loc[t].text[i] = " "
       /\ (loc[t].op = "decode_encode"
             /\ \E k \in DOMAIN CharactersCode \ ColorNames :
                   int(CharactersCode[k]) = loc[t].codes[1])
          => loc[t].data = loc[t].codes

\* a lower-case letter next to an unknown symbol has come back as the capital
\* and a blank
C23_Witness ==
    \E t \in ApiThreads :
       /\ loc[t].op = "encode_decode"
       /\ loc[t].tokens = <<"q", "~">> /\ loc[t].text = <<"Q", " ">>


\* C26: game_prioritizer returns every game of the schedule, the games with a
\* team of the preferred list before the games with none; the preferred games
\* in ascending rank of their preferred team (the better-ranked one when both
\* teams are preferred), equal ranks in input order; the other games in
\* ascending start time.
C26_PreferredByBetterRank ==
    \A t \in ApiThreads :
       loc[t].op = "game_prioritizer"
       => LET given == loc[t].given_schedule
              out == loc[t].prioritized_schedule
              touches(g) == InPriority(g.homeTeamId) \/ InPriority(g.awayTeamId)
              ranks(g) == {PriorityIndex(team) :
                              team \in {x \in {g.homeTeamId, g.awayTeamId} : InPriority(x)}}
              best(g) == CHOOSE r \in ranks(g) : \A q \in ranks(g) : r <= q
          IN  /\ Len(out) = Len(given)
              /\ \A i \in 1..Len(given) : \E j \in 1..Len(out) : out[j] = given[i]
              /\ \A i, j \in 1..Len(out) :
                    i < j
                    => /\ touches(out[i]) \/ ~touches(out[j])
                       /\ (touches(out[i]) /\ touches(out[j]))
                          => \/ best(out[i]) < best(out[j])
                             \/ /\ best(out[i]) = best(out[j])
                                /\ out[i].gameId < out[j].gameId
                       /\ (~touches(out[i]) /\ ~touches(out[j]))
                          => out[i].datetime <= out[j].datetime


\* C27: when nothing is playing, the music service answers with an auth or
\* rate error, or there is no client, SpotifyInstallable.generate_board returns
\* the board the Device holds, unchanged, and a retry delay of 15000 ms.
C27_SpotifyFailureReturnsPriorBoard ==
    [][\A t \in Threads :
          (/\ pc[t] = "generate_board"
           /\ loc[t].installable_name = "spotify"
           /\ pc'[t] = "update_message"
           /\ loc'[t].fault)
          => (loc'[t].board = active_board /\ loc'[t].refresh = SOFT_RETRY_MS)]_vars


\* C28: for every second s of the minute at which the clock draws its board,
\* the refresh delay it returns is 60000 - 1000 * s milliseconds, which lies
\* between 1000 and 60000: the next tick falls on the next minute boundary.
C28_ClockRefreshReachesNextMinute ==
    \A t \in ApiThreads :
       loc[t].op = "clock_generate_board"
       => /\ loc[t].refresh = 60000 - (1000 * loc[t].second)
          /\ loc[t].refresh \in 1000..60000

\* the clock has drawn its board in the last second of a minute
C28_Witness ==
    \E t \in ApiThreads :
       /\ loc[t].op = "clock_generate_board"
       /\ loc[t].second = 59 /\ loc[t].refresh = 1000


\* C31: with a schedule of n > 0 games in hand, every call of the scoreboard's
\* generate_board advances the cursor by one modulo n and leaves it in
\* 0..n-1, also when the live-feed request or its parsing fails.
C31_CursorAdvancesEveryTick ==
    [][\A t \in Threads :
          (/\ pc[t] = "generate_board"
           /\ pc'[t] # pc[t]
           /\ loc[t].installable_name = "mlb"
           /\ schedule' # <<>>)
          => (/\ current_game_index' = (current_game_index + 1) % Len(schedule')
              /\ current_game_index' \in 0..(Len(schedule') - 1))]_vars

\* C33: generate_board of the scoreboard returns a board and a strictly
\* positive delay instead of raising when the schedule is empty, the schedule
\* or feed request fails or the game has no plays yet; the music installable
\* does so when nothing is playing or the service answers with an auth error.
C33_ExpectedFailuresDoNotRaise ==
    [][\A t \in Threads :
          (/\ pc[t] = "generate_board"
           /\ pc'[t] # pc[t]
           /\ loc'[t].fault
           /\ (loc[t].installable_name = "mlb" \/ pc'[t] = "update_message"))
          => (pc'[t] = "update_message" /\ loc'[t].refresh > 0)]_vars


\* C32: a play description longer than the column width is split over the two
\* description lines word by word: the words of line 5 followed by those of
\* line 6 are the description's words in their order, line 6 starts with the
\* first word that no longer fits line 5, and neither line, its trailing blank
\* apart, is longer than the column width.
C32_DescriptionIsWrappedGreedily ==
    \A t \in ApiThreads :
       (loc[t].op = "description_lines" /\ Len(loc[t].text) > columns)
       => LET line_5 == loc[t].lines[1]
              line_6 == loc[t].lines[2]
              words_5 == split_words(line_5, <<>>)
              words_6 == split_words(line_6, <<>>)
          IN  /\ words_5 \o words_6 = split_words(loc[t].text, <<>>)
              /\ Len(join_words(words_5)) <= columns
              /\ Len(join_words(words_6)) <= columns
              /\ words_6 # <<>>
                 => Len(join_words(Append(words_5, Head(words_6)))) > columns


\* C34: while no installable is active the running loop only polls: it takes
\* no step that calls an installable (should_update, generate_board) or the
\* Device (update_message and its POST), and the sleep it starts after finding
\* nothing active is the fallback interval.
C34_IdleLoopOnlyPolls ==
    [][\A t \in LoopThreads :
          /\ ((active_installable = None /\ pc'[t] # pc[t])
              => pc[t] \notin {"should_update", "generate_board", "update_message",
                               "posting"})
          /\ ((pc[t] = "idle_sleep" /\ pc'[t] # pc[t])
              => loc'[t].sleep_ms = UPDATE_INTERVAL_S * 1000)]_vars


\* C35: every step that reads or writes active_installable (the bodies of
\* activate, deactivate and the status query, the reads of update_board and of
\* the loop) is taken by the thread that holds the orchestrator lock; at most
\* one thread is inside such a section; and active_installable changes only by
\* a step of the lock's holder inside activate or deactivate.
C35_ActiveInstallableUnderLock ==
    /\ [](/\ \A t \in Threads : pc[t] \in LockedSections => lock = t
          /\ Cardinality({t \in Threads : pc[t] \in LockedSections}) <= 1)
    /\ [][active_installable' # active_installable
            => \E t \in Threads :
                  /\ lock = t /\ pc[t] \in {"activate_body", "deactivate_body"}
                  /\ pc'[t] = "idle" /\ lock' = None]_vars

\* the loop holds the lock for its read after a tick while a handler has
\* activated an installable and another request is still to come
C35_Witness ==
    \E t \in LoopThreads, a \in ApiThreads :
       /\ pc[t] = "loop_after_read" /\ lock = t
       /\ active_installable # None /\ loc[a].op = "activate"
       /\ pc[a] = "idle" /\ requests < MaxRequests


\* C36: convert_from_character_code returns one token per code, for every
\* integer: the table's glyph for a glyph code, a blank for a code without a
\* symbol and the placeholder for each colour code 63..71;
\* convert_from_character_code_with_colors returns the same token at every
\* position, with color None for a code that is no colour and the colour's name
\* for a colour code.
C36_DecodersAgree ==
    \A t \in ApiThreads :
       loc[t].op = "decode"
       => /\ Len(loc[t].text) = Len(loc[t].codes)
          /\ Len(loc[t].chars) = Len(loc[t].codes)
          /\ \A i \in 1..Len(loc[t].codes) :
                LET code == loc[t].codes[i]
                    keys == {k \in DOMAIN CharactersCode : int(CharactersCode[k]) = code}
                IN  /\ keys = {} => loc[t].text[i] = " "
                    /\ \A k \in keys \ ColorNames : loc[t].text[i] = k
                    /\ code \in 63..71 <=> loc[t].text[i] = "BLOCK"
                    /\ loc[t].chars[i].char = loc[t].text[i]
                    /\ code \notin 63..71 => loc[t].chars[i].color = None
                    /\ code \in 63..71
                       => /\ loc[t].chars[i].color \in DOMAIN UpperOf
                          /\ UpperOf[loc[t].chars[i].color] \in keys

\* a colour code, a glyph code and a code without a symbol have been decoded
C36_Witness ==
    \E t \in ApiThreads :
       /\ loc[t].op = "decode" /\ loc[t].codes = <<66, 43>>
       /\ loc[t].text = <<"BLOCK", " ">>
       /\ loc[t].chars[1].color = "green" /\ loc[t].chars[2].color = None


\* C37: in every reachable state active_installable is None or a key of the
\* registry fixed at construction, and so is the name a tick has read for its
\* lookup in the registry: no lookup of the active installable fails.
C37_ActiveInstallableIsRegistered ==
    /\ active_installable \in InstallableNames \cup {None}
    /\ \A t \in Threads : loc[t].installable_name \in InstallableNames \cup {None}
    /\ \A t \in Threads :
          pc[t] \in {"should_update", "generate_board"}
          => loc[t].installable_name \in InstallableNames

\* an unregistered name has been refused while the loop ticks the installable
\* that stays active
C37_Witness ==
    \E t \in LoopThreads, a \in ApiThreads :
       /\ pc[t] = "generate_board" /\ loc[t].installable_name = active_installable
       /\ loc[a].op = "activate" /\ loc[a].arg = "unknown" /\ loc[a].ret = False
       /\ pc[a] = "idle"


\* C40: after a tick that failed (update_board returned False) the loop sleeps
\* a strictly positive time before its next tick, also when the failed tick is
\* the first after the activation and no delay has been recorded yet.
C40_NoBusyRetryAfterFailure ==
    [][\A t \in LoopThreads :
          (pc[t] = "loop_after_read" /\ pc'[t] \in {"sleep", "idle_sleep"}
             /\ loc[t].ret = False)
          => (pc'[t] = "sleep" => loc'[t].sleep_ms > 0)]_vars


\* C39: when update_message calls overlap, the Device's record follows the
\* display: a send that adopts its board while no other send is in flight
\* leaves in active_board the board whose grid the display shows, that is the
\* board of the send the display accepted last.
C39_RecordedBoardIsTheOneShown ==
    [][\A t \in Threads :
          (/\ pc[t] = "response" /\ pc'[t] = "update_message_returned"
           /\ \A u \in Threads \ {t} :
                 pc[u] \notin {"update_message", "posting", "response"})
          => message_data(active_board') = display']_vars


\* C38: whatever the sequence of start_background_task and
\* stop_background_task calls, a stop whose join timed out followed by a new
\* start included, at most one background loop thread is inside a tick at any
\* time.
C38_OneLoopTicks ==
    Cardinality({t \in DOMAIN pc \ ApiThreads :
                    pc[t] \in {"update_board", "update_board_read", "should_update",
                               "generate_board", "update_message", "posting", "response",
                               "update_message_returned", "update_message_raised",
                               "mark_update", "mark_update_body"}}) <= 1

=============================================================================
